---------------------------- MODULE Spec2Model ----------------------------
(***************************************************************************)
(* University Planner (uniplanner): the data file data.json, its backups,  *)
(* and the operations of the two front ends, GUI_planner.py (Tkinter) and  *)
(* planner_menu.py (text menu), that read and write them.                  *)
(*                                                                         *)
(* Text typed by the user is a sequence of symbols.  A symbol is either    *)
(* one of the characters the code splits or strips on (",", "@", "-", and  *)
(* every whitespace character) or a run of other characters ("Mon",        *)
(* "09:00", "Room201").  A whitespace character TLA+ has no escape for is  *)
(* written as Python's repr writes it ("\\xa0" is U+00A0).                 *)
(* A Python str is therefore a Seq of symbols, "" is << >>.                *)
(***************************************************************************)
EXTENDS Integers, Sequences, FiniteSets, TLC

\* ------------------------------------------------------------- bounds
MaxSubjects == 2
MaxAttendance == 1
MaxAssignments == 1
\* The clock runs over the seconds 0..MaxClock.
MaxClock == 1
\* The size of the pool gen_id draws from, per collection.
NumIds == 2
\* A bounded session: the operations that change a file, at most.
MaxWrites == 4
\* A stored document read by the views: its attendance records, its
\* assignments, the slots of a subject, at most.
MaxRows == 5
\* A stored document a subject is deleted from: its subjects, and its
\* attendance records, at most.
MaxKept == 3
MaxDue == 3
MaxSlots == 2
\* A schedule text: its symbols when every text is tried, its pieces when
\* it is put together from whole pieces.
MaxText == 4
MaxPieces == 3

\* --------------------------------------------------------- plain values
\* Python's None where an id is expected (subjectId of an unassigned Assignment).
NoId == 0
\* data.json, or a backup file, that does not exist.
Absent == [missing |-> TRUE]

Range(s) == {s[i] : i \in DOMAIN s}

WEEKDAYS == <<"Sun", "Mon", "Tue", "Wed", "Thu", "Fri", "Sat">>

\* The characters str.strip() removes: those str.isspace() is true of.
Whitespace ==
    {" ", "\t", "\n", "\r", "\f", "\\x0b", "\\x1c", "\\x1d", "\\x1e", "\\x1f",
     "\\x85", "\\xa0", "\\u1680", "\\u2000", "\\u2001", "\\u2002", "\\u2003",
     "\\u2004", "\\u2005", "\\u2006", "\\u2007", "\\u2008", "\\u2009", "\\u200a",
     "\\u2028", "\\u2029", "\\u202f", "\\u205f", "\\u3000"}

\* ------------------------------------------------------------- str methods
\* str.strip(): leading and trailing whitespace removed.
RECURSIVE LStrip(_)
LStrip(s) ==
    IF s # << >> /\ Head(s) \in Whitespace THEN LStrip(Tail(s)) ELSE s

RECURSIVE RStrip(_)
RStrip(s) ==
    IF s # << >> /\ s[Len(s)] \in Whitespace
    THEN RStrip(SubSeq(s, 1, Len(s) - 1))
    ELSE s

Strip(s) == RStrip(LStrip(s))

\* The position of the first sep in s, 0 when there is none.
Find(s, sep) ==
    IF \E i \in DOMAIN s : s[i] = sep
    THEN CHOOSE i \in DOMAIN s : s[i] = sep /\ \A j \in 1..(i - 1) : s[j] # sep
    ELSE 0

\* str.split(sep): the pieces between every occurrence of sep.
RECURSIVE Split(_, _)
Split(s, sep) ==
    LET i == Find(s, sep)
    IN  IF i = 0
        THEN << s >>
        ELSE << SubSeq(s, 1, i - 1) >> \o Split(SubSeq(s, i + 1, Len(s)), sep)

\* str.split(sep, 1): at most one split, at the first sep.
Split1(s, sep) ==
    LET i == Find(s, sep)
    IN  IF i = 0
        THEN << s >>
        ELSE << SubSeq(s, 1, i - 1), SubSeq(s, i + 1, Len(s)) >>

\* sep.join(parts)
RECURSIVE Join(_, _)
Join(parts, sep) ==
    IF parts = << >> THEN << >>
    ELSE IF Len(parts) = 1 THEN parts[1]
    ELSE parts[1] \o << sep >> \o Join(Tail(parts), sep)

\* ------------------------------------------------------- schedule parser
BadPiece == [ok |-> FALSE, msg |-> "Bad schedule piece. Example: Mon@09:00-10:30"]

\* [p.strip() for p in s.split(",") if p.strip()]
RECURSIVE StripNonEmpty(_)
StripNonEmpty(ps) ==
    IF ps = << >> THEN << >>
    ELSE (IF Strip(Head(ps)) # << >> THEN << Strip(Head(ps)) >> ELSE << >>)
         \o StripNonEmpty(Tail(ps))

schedule_parts(s) == StripNonEmpty(Split(s, ","))

\* The day/time token and the location of one piece:
\*   if " " in p: p, loc = p.split(" ", 1); loc = loc.strip()
piece_token(p) == IF Find(p, " ") # 0 THEN Split1(p, " ")[1] ELSE p
\* A faulty location that keeps the whitespace around it.
piece_loc_untrimmed(p) == IF Find(p, " ") # 0 THEN Split1(p, " ")[2] ELSE << >>

piece_loc(p) == IF Find(p, " ") # 0 THEN Strip(Split1(p, " ")[2]) ELSE << >>

\* The weekday test of GUI_planner.py (planner_menu.py has none).
day_in_WEEKDAYS(day) == Len(day) = 1 /\ day[1] \in Range(WEEKDAYS)

\* GUI_planner.py line 74, inside the try:
\*   raise ValueError(f"Unknown weekday: {day}. Use one of: {', '.join(WEEKDAYS)}")
unknown_weekday(day) ==
    [ok |-> FALSE, msg |-> "Unknown weekday: {day}. Use one of: {labels}",
     day |-> day, labels |-> WEEKDAYS]

\* Lines 77-78: except Exception: raise ValueError("Bad schedule piece. ...");
\* whatever the try block raised is replaced.
except_Exception(raised) == BadPiece

\* The body of the try block for one piece; checkDay is TRUE for the GUI.
\* Either unpacking (day, times = ...; start, end = ...) raises unless the
\* split gives exactly two parts; every exception becomes BadPiece.
parse_piece(p, checkDay) ==
    LET tok == piece_token(p)
        at == Split(tok, "@")
    IN  IF Len(at) # 2 THEN BadPiece
        ELSE LET day == Strip(at[1])
                 dash == Split(at[2], "-")
             IN  IF checkDay /\ ~day_in_WEEKDAYS(day)
                 THEN except_Exception(unknown_weekday(day))
                 ELSE IF Len(dash) # 2 THEN BadPiece
                 ELSE [ok |-> TRUE,
                       item |-> [day |-> day, start |-> Strip(dash[1]),
                                 end |-> Strip(dash[2]), location |-> piece_loc(p)]]

\* A faulty loop that leaves a bad piece out and goes on.
RECURSIVE parse_loop_skips_bad(_, _, _)
parse_loop_skips_bad(parts, items, checkDay) ==
    IF parts = << >> THEN [ok |-> TRUE, items |-> items]
    ELSE LET r == parse_piece(Head(parts), checkDay)
         IN  parse_loop_skips_bad(Tail(parts),
                 IF r.ok THEN Append(items, r.item) ELSE items, checkDay)

\* for p in parts: ... items.append(...) ; the first bad piece raises.
RECURSIVE parse_loop(_, _, _)
parse_loop(parts, items, checkDay) ==
    IF parts = << >> THEN [ok |-> TRUE, items |-> items]
    ELSE LET r == parse_piece(Head(parts), checkDay)
         IN  IF ~r.ok THEN r
             ELSE parse_loop(Tail(parts), Append(items, r.item), checkDay)

\* GUI_planner.py
parse_schedule_string(s) == parse_loop(schedule_parts(s), << >>, TRUE)

\* planner_menu.py: the same loop without the weekday test.
menu_parse_schedule_string(s) == parse_loop(schedule_parts(s), << >>, FALSE)

\* A faulty rendering that leaves out the space before the location.
schedule_part_unspaced(sch) ==
    sch.day \o << "@" >> \o sch.start \o << "-" >> \o sch.end \o sch.location

\* _subject_form, lines 308-310: f"{day}@{start}-{end}", and " " + location
\* when sch.get("location") is there and not empty.
schedule_part(sch) ==
    LET location == IF "location" \in DOMAIN sch THEN sch.location ELSE << >>
    IN  sch.day \o << "@" >> \o sch.start \o << "-" >> \o sch.end
            \o (IF location # << >> THEN << " " >> \o location ELSE << >>)

\* _subject_form, lines 305-312: the text put into the schedule entry of the
\* edit form; nothing is inserted for an empty schedule.
schedule_entry_text(schedule) ==
    IF schedule = << >> THEN << >>
    ELSE Join([i \in DOMAIN schedule |-> schedule_part(schedule[i])], ",")


\* ------------------------------------------------------------ documents
\* ensure_data_file's init document, written at time t.
EmptyDocument(t) ==
    [subjects |-> << >>, attendance |-> << >>, assignments |-> << >>,
     meta |-> [createdAt |-> t]]

\* A faulty ensure_data_file that writes the init document every time.
ensure_data_file_rewrites(file, t) == EmptyDocument(t)

\* ensure_data_file(): writes the init document only when data.json is missing.
ensure_data_file(file, t) == IF file = Absent THEN EmptyDocument(t) ELSE file

\* load_data(): ensure_data_file(), then json.load. The pair of the file as
\* ensure_data_file leaves it and the value read (the same value: json.load
\* of what json.dump wrote).
load_data(file, t) == ensure_data_file(file, t)

\* save_data(d): the whole document replaces the file.
save_data(d) == d

\* The first element of seq that satisfies the test given as the set of
\* indices `hits`: next((x for x in seq if ...), None) and the for/break loops.
FirstIndex(hits) == IF hits = {} THEN 0 ELSE CHOOSE i \in hits : \A j \in hits : i <= j

IndexOfId(seq, id) == FirstIndex({i \in DOMAIN seq : seq[i].id = id})

IdsOf(seq) == {seq[i].id : i \in DOMAIN seq}

\* [x for x in seq if x["id"] != id]
RECURSIVE WithoutId(_, _)
WithoutId(seq, id) ==
    IF seq = << >> THEN << >>
    ELSE (IF Head(seq).id # id THEN << Head(seq) >> ELSE << >>)
         \o WithoutId(Tail(seq), id)

\* [r for r in seq if r.get("subjectId") != subj_id]
RECURSIVE WithoutSubject(_, _)
WithoutSubject(seq, sid) ==
    IF seq = << >> THEN << >>
    ELSE (IF Head(seq).subjectId # sid THEN << Head(seq) >> ELSE << >>)
         \o WithoutSubject(Tail(seq), sid)

\* Faulty variants of the cascade: one filter is forgotten.
delete_subject_keeps_assignments(d, sid) ==
    [d EXCEPT !.subjects = WithoutId(d.subjects, sid),
              !.attendance = WithoutSubject(d.attendance, sid)]

delete_subject_keeps_attendance(d, sid) ==
    [d EXCEPT !.subjects = WithoutId(d.subjects, sid),
              !.assignments = WithoutSubject(d.assignments, sid)]

\* delete_subject_dialog, lines 395-397: the three filters of the cascade.
delete_subject(d, sid) ==
    [d EXCEPT !.subjects = WithoutId(d.subjects, sid),
              !.attendance = WithoutSubject(d.attendance, sid),
              !.assignments = WithoutSubject(d.assignments, sid)]

\* on_save, lines 333-339: the first subject with the id gets the four
\* fields of the form; id and createdAt are not assigned.
update_subject(d, sid, name, code, prof, schedule) ==
    LET i == IndexOfId(d.subjects, sid)
    IN  IF i = 0 THEN d
        ELSE [d EXCEPT !.subjects[i].name = name, !.subjects[i].code = code,
                       !.subjects[i].prof = prof, !.subjects[i].schedule = schedule]

new_subject(id, name, code, prof, schedule, t) ==
    [id |-> id, name |-> name, code |-> code, prof |-> prof,
     schedule |-> schedule, createdAt |-> t]

add_subject(d, subj) == [d EXCEPT !.subjects = Append(@, subj)]

new_attendance(id, sid, date, present, t) ==
    [id |-> id, subjectId |-> sid, date |-> date, present |-> present, createdAt |-> t]

add_attendance(d, rec) == [d EXCEPT !.attendance = Append(@, rec)]

new_assignment(id, sid, title, description, due, t) ==
    [id |-> id, subjectId |-> sid, title |-> title, description |-> description,
     dueAt |-> due, createdAt |-> t, completed |-> FALSE]

add_assignment(d, a) == [d EXCEPT !.assignments = Append(@, a)]

\* GUI toggle_assignment_completion, lines 601-604: the first assignment
\* with the id is flipped; when none has it the document is left as loaded.
toggle_by_id(d, aid) ==
    LET i == IndexOfId(d.assignments, aid)
    IN  IF i = 0 THEN d
        ELSE [d EXCEPT !.assignments[i].completed = ~@]

\* Menu toggle_assignment_completion, line 301: by position.
toggle_by_index(d, n) == [d EXCEPT !.assignments[n].completed = ~@]

delete_attendance(d, id) == [d EXCEPT !.attendance = WithoutId(@, id)]

delete_assignment(d, id) == [d EXCEPT !.assignments = WithoutId(@, id)]


\* ----------------------------------------------------------- attendance
\* A float the code computes, kept as the fraction num / den it stands for:
\* (present / len(rows)) * 100.0 is (present * 100) / len(rows), 100.0 is 100 / 1.
\* compute_attendance_percent, line 94: the records of the subject.
attendance_rows(d, sid) == SelectSeq(d.attendance, LAMBDA r : r.subjectId = sid)

\* Line 97: sum(1 for r in rows if r["present"]).
present_count(rows) == Cardinality({i \in DOMAIN rows : rows[i].present})

\* A faulty compute_attendance_percent that counts every subject's records.
compute_attendance_percent_all_rows(d, sid) ==
    LET rows == d.attendance
    IN  IF rows = << >> THEN [num |-> 100, den |-> 1]
        ELSE [num |-> present_count(rows) * 100, den |-> Len(rows)]

\* compute_attendance_percent(subject_id), on the document load_data returns.
compute_attendance_percent(d, sid) ==
    LET rows == attendance_rows(d, sid)
    IN  IF rows = << >> THEN [num |-> 100, den |-> 1]
        ELSE [num |-> present_count(rows) * 100, den |-> Len(rows)]

\* A faulty test that also alerts at 75 percent.
below_75_or_equal(pct) == pct.num <= 75 * pct.den

\* pct < 75.0
below_75(pct) == pct.num < 75 * pct.den

\* The dashboards' alerts: for s in subjects, (s, pct) when pct < 75.0.
attendance_alerts(d) ==
    LET low == SelectSeq(d.subjects,
                   LAMBDA s : below_75(compute_attendance_percent(d, s.id)))
    IN  [i \in DOMAIN low |->
            [subject |-> low[i], pct |-> compute_attendance_percent(d, low[i].id)]]

\* ------------------------------------------------------------- the state
VARIABLES
    disk,       \* data.json: Absent or the document it holds
    backups,    \* backups/data_backup_<ts>.json, by the second ts of its name
    now,        \* the clock, in seconds
    gui,        \* the GUI process: started, the screen shown, the rows of its
                \* tree (ids), whether the screen's buttons exist, the open form
    frontEnds,  \* the front ends the user runs on this directory
    menu,       \* the menu process: started, and what its function holds
                \* while it waits at a prompt
    writes,     \* how many operations have changed a file so far
    last        \* the operation that ran last and how it ended

vars == << disk, backups, now, gui, frontEnds, menu, writes, last >>

Ids == 1..NumIds
Clock == 0..MaxClock

Closed == [open |-> FALSE]

\* How an operation ends, as the front end reports it.
Done(fe, op, out, arg) == last' = [fe |-> fe, op |-> op, out |-> out, arg |-> arg]
NoArg == [none |-> TRUE]

\* ------------------------------------------------------------ gen_id
\* uuid4().hex[:10]: a random token. Nothing compares it with the ids in
\* use, so a draw may return any token, one already taken included.
gen_id == Ids

\* --------------------------------------------------------- GUI screens
\* show_subjects / show_attendance / show_assignments: tree.insert(iid=id)
\* for each row in order. A second row with an id already in the tree
\* raises TclError: the rows before it stay, and the screen's buttons,
\* created after the loop, do not exist.
FirstDup(seq) ==
    FirstIndex({i \in DOMAIN seq : \E j \in 1..(i - 1) : seq[j].id = seq[i].id})

TreeRows(seq) ==
    IF FirstDup(seq) = 0 THEN IdsOf(seq)
    ELSE IdsOf(SubSeq(seq, 1, FirstDup(seq) - 1))

show_screen(g, kind, d) ==
    [g EXCEPT !.screen = kind, !.rows = TreeRows(d[kind]),
              !.buttons = (FirstDup(d[kind]) = 0), !.form = Closed]

\* show_dashboard: _clear_right() destroys the tree.
show_dashboard(g) ==
    [g EXCEPT !.screen = "dashboard", !.rows = {}, !.buttons = TRUE, !.form = Closed]

\* The GUI waits for a button; the menu waits at "Choose an option: ".
GuiIdle == "gui" \in frontEnds /\ gui.started /\ ~gui.form.open
MenuUp == "menu" \in frontEnds /\ menu.started /\ ~menu.asking.open

\* ------------------------------------------------------------- storage
\* backup_data(): shutil.copy2(DATA_FILE, backups/data_backup_<now>.json);
\* a file of that name is overwritten.
backup_data(bk, file, t) == [bk EXCEPT ![t] = file]

\* restore_selected_backup, lines 178-179: backup_data(), then
\* shutil.copy2(path, DATA_FILE), reading path after the backup was written.
restore_files(bk, file, ts, t) ==
    LET bk1 == backup_data(bk, file, t)
    IN  [backups |-> bk1, disk |-> bk1[ts]]


\* --------------------------------------------------------------- inputs
\* What the user types into the subject form (or at the menu's prompts).
FormCalc ==
    [name |-> << "Calculus" >>, code |-> << "MA101" >>, prof |-> << "Roy" >>,
     sched |-> << "Mon", "@", "09:00", "-", "10:30" >>]
FormNoName == [FormCalc EXCEPT !.name = << " " >>]
FormXyz == [FormCalc EXCEPT !.sched = << "Xyz", "@", "09:00", "-", "10:30" >>]

SubjectForms == {FormCalc, FormNoName, FormXyz}

\* datetime.fromisoformat: the texts it accepts, with the datetime each
\* denotes (day of January 2024, hour, minute, second, and whether it
\* carries a UTC offset); it raises on any other.
IsoDate(text, day) ==
    [text |-> text, day |-> day, hour |-> 0, minute |-> 0, second |-> 0,
     aware |-> FALSE]

IsoValues ==
    {IsoDate(<< "2024-01-03" >>, 3),
     IsoDate(<< "2024-01-08" >>, 8),
     IsoDate(<< "2024-01-10" >>, 10),
     IsoDate(<< "2024-01-03", "T", "00:00" >>, 3),
     [IsoDate(<< "2024-01-03", "T", "10:30" >>, 3) EXCEPT !.hour = 10, !.minute = 30],
     [IsoDate(<< "2024-01-03", " ", "10:30" >>, 3) EXCEPT !.hour = 10, !.minute = 30],
     [IsoDate(<< "2024-01-03", "T", "00:00:30" >>, 3) EXCEPT !.second = 30],
     [IsoDate(<< "2024-01-03", "T", "10:30", "+00:00" >>, 3)
         EXCEPT !.hour = 10, !.minute = 30, !.aware = TRUE]}

fromisoformat(s) ==
    IF \E v \in IsoValues : v.text = s
    THEN [ok |-> TRUE, value |-> CHOOSE v \in IsoValues : v.text = s]
    ELSE [ok |-> FALSE]

\* date.today().isoformat(): the clock's seconds all lie in one day.
Today == << "2024-01-01" >>

\* --------------------------------------------------------------- dates
\* The seconds from the start of January 2024 to a datetime.
Instant(v) == ((v.day * 24 + v.hour) * 60 + v.minute) * 60 + v.second

\* timedelta(days=n), in seconds.
timedelta_days(n) == n * 24 * 60 * 60

\* strftime("%Y-%m-%d") and strftime("%H:%M") of a datetime.
strftime_date(v) ==
    IF v.day < 10 THEN CASE v.day = 1 -> "2024-01-01" [] v.day = 2 -> "2024-01-02"
                         [] v.day = 3 -> "2024-01-03" [] v.day = 4 -> "2024-01-04"
                         [] v.day = 5 -> "2024-01-05" [] v.day = 6 -> "2024-01-06"
                         [] v.day = 7 -> "2024-01-07" [] v.day = 8 -> "2024-01-08"
                         [] v.day = 9 -> "2024-01-09"
    ELSE "2024-01-10"

strftime_time(v) ==
    CASE v.hour = 0 /\ v.minute = 0 -> "00:00"
      [] v.hour = 10 /\ v.minute = 30 -> "10:30"

\* DATE_FMT and DATETIME_FMT applied by strftime.
DATE_FMT(v) == << strftime_date(v) >>
DATETIME_FMT(v) == << strftime_date(v), " ", strftime_time(v) >>

\* GUI format_datetime_iso: "N/A" for None or "", the text itself when it
\* does not parse, date and time when the hour, minute or second is not 0.
format_datetime_iso(s) ==
    IF s = << >> THEN << "N/A" >>
    ELSE LET r == fromisoformat(s)
         IN  IF ~r.ok THEN s
             ELSE IF r.value.hour # 0 \/ r.value.minute # 0 \/ r.value.second # 0
                  THEN DATETIME_FMT(r.value)
                  ELSE DATE_FMT(r.value)

\* Menu format_datetime_iso: date and time when the text holds a "T".
menu_format_datetime_iso(s) ==
    IF s = << >> THEN << "N/A" >>
    ELSE LET r == fromisoformat(s)
         IN  IF ~r.ok THEN s
             ELSE IF "T" \in Range(s) THEN DATETIME_FMT(r.value)
                  ELSE DATE_FMT(r.value)

\* show_dashboard / dashboard, the loop over the assignments: (d, a) for
\* each dueAt that is set and that fromisoformat accepts.
due_pairs(assignments) ==
    LET has == SelectSeq(assignments,
                   LAMBDA a : a.dueAt # << >> /\ fromisoformat(a.dueAt).ok)
    IN  [i \in DOMAIN has |-> [d |-> fromisoformat(has[i].dueAt).value, a |-> has[i]]]

\* now <= d <= now + timedelta(days=7), outside the try: comparing the
\* naive now with a d that carries an offset raises TypeError.
in_window(pairs, nowv) ==
    IF \E i \in DOMAIN pairs : pairs[i].d.aware
    THEN [ok |-> FALSE, error |-> "TypeError"]
    ELSE [ok |-> TRUE,
          items |-> SelectSeq(pairs,
                        LAMBDA p : /\ Instant(nowv) <= Instant(p.d)
                                   /\ Instant(p.d) <= Instant(nowv) + timedelta_days(7))]

\* upcoming.sort(key=lambda x: x[0]): ascending by d, equal keys in the
\* order they were appended.
RECURSIVE sort_by_d(_)
sort_by_d(items) ==
    IF items = << >> THEN << >>
    ELSE LET x == items[Len(items)]
             rest == sort_by_d(SubSeq(items, 1, Len(items) - 1))
             k == Cardinality({i \in DOMAIN rest : Instant(rest[i].d) <= Instant(x.d)})
         IN  SubSeq(rest, 1, k) \o << x >> \o SubSeq(rest, k + 1, Len(rest))

\* The dashboards' upcoming deadlines at the datetime nowv.
upcoming_assignments(d, nowv) ==
    LET r == in_window(due_pairs(d.assignments), nowv)
    IN  IF r.ok THEN [ok |-> TRUE, items |-> sort_by_d(r.items)] ELSE r

\* The characters of the symbols dueAt texts are made of, and ord() of each.
chars(sym) ==
    CASE sym = "2024-01-03" -> << "2", "0", "2", "4", "-", "0", "1", "-", "0", "3" >>
      [] sym = "2024-01-08" -> << "2", "0", "2", "4", "-", "0", "1", "-", "0", "8" >>
      [] sym = "2024-01-10" -> << "2", "0", "2", "4", "-", "0", "1", "-", "1", "0" >>
      [] sym = "00:00" -> << "0", "0", ":", "0", "0" >>
      [] sym = "10:30" -> << "1", "0", ":", "3", "0" >>
      [] sym = "00:00:30" -> << "0", "0", ":", "0", "0", ":", "3", "0" >>
      [] sym = "+00:00" -> << "+", "0", "0", ":", "0", "0" >>
      [] sym = "bad" -> << "b", "a", "d" >>
      [] sym = "T" -> << "T" >>
      [] sym = " " -> << " " >>

ord(c) ==
    CASE c = " " -> 32 [] c = "+" -> 43 [] c = "-" -> 45 [] c = "0" -> 48
      [] c = "1" -> 49 [] c = "2" -> 50 [] c = "3" -> 51 [] c = "4" -> 52
      [] c = "8" -> 56 [] c = ":" -> 58 [] c = "T" -> 84 [] c = "a" -> 97
      [] c = "b" -> 98 [] c = "d" -> 100

\* The code points of a text, symbol after symbol.
RECURSIVE code_points(_)
code_points(s) ==
    IF s = << >> THEN << >>
    ELSE [i \in DOMAIN chars(Head(s)) |-> ord(chars(Head(s))[i])] \o code_points(Tail(s))

\* str < str: by the first code point that differs, a proper prefix first.
RECURSIVE code_points_lt(_, _)
code_points_lt(a, b) ==
    IF b = << >> THEN FALSE
    ELSE IF a = << >> THEN TRUE
    ELSE IF Head(a) # Head(b) THEN Head(a) < Head(b)
    ELSE code_points_lt(Tail(a), Tail(b))

str_lt(s, t) == code_points_lt(code_points(s), code_points(t))

\* list_assignments, the filter "a.get('dueAt') and now <= fromisoformat(
\* a['dueAt']) <= window", evaluated assignment by assignment with no try:
\* the first dueAt that does not parse raises ValueError, the first with an
\* offset TypeError, and the listing is abandoned.
RECURSIVE due_filter(_, _, _)
due_filter(assigns, nowv, upcoming_days) ==
    IF assigns = << >> THEN [ok |-> TRUE, items |-> << >>]
    ELSE LET a == Head(assigns)
             r == fromisoformat(a.dueAt)
             rest == due_filter(Tail(assigns), nowv, upcoming_days)
         IN  IF a.dueAt = << >> THEN rest
             ELSE IF ~r.ok THEN [ok |-> FALSE, error |-> "ValueError"]
             ELSE IF r.value.aware THEN [ok |-> FALSE, error |-> "TypeError"]
             ELSE IF ~rest.ok THEN rest
             ELSE IF /\ Instant(nowv) <= Instant(r.value)
                     /\ Instant(r.value) <= Instant(nowv) + timedelta_days(upcoming_days)
                  THEN [ok |-> TRUE, items |-> << a >> \o rest.items]
                  ELSE rest

\* sorted(assigns, key=lambda x: x.get("dueAt") or ""): ascending by the
\* dueAt text, equal texts in the order of the list.
RECURSIVE sorted_by_dueAt(_)
sorted_by_dueAt(assigns) ==
    IF assigns = << >> THEN << >>
    ELSE LET x == assigns[Len(assigns)]
             rest == sorted_by_dueAt(SubSeq(assigns, 1, Len(assigns) - 1))
             k == Cardinality({i \in DOMAIN rest : ~str_lt(x.dueAt, rest[i].dueAt)})
         IN  SubSeq(rest, 1, k) \o << x >> \o SubSeq(rest, k + 1, Len(rest))

\* list_assignments(upcoming_days) at the datetime nowv, the same function
\* in both files: the assignments listed, in the order listed.
list_assignments(d, nowv, upcoming_days) ==
    IF upcoming_days > 0
    THEN LET r == due_filter(d.assignments, nowv, upcoming_days)
         IN  IF r.ok THEN [ok |-> TRUE, items |-> sorted_by_dueAt(r.items)] ELSE r
    ELSE [ok |-> TRUE, items |-> sorted_by_dueAt(d.assignments)]

\* The text shown as due date for each listed assignment, GUI and menu.
due_strs(items) == [i \in DOMAIN items |-> format_datetime_iso(items[i].dueAt)]

menu_due_strs(items) == [i \in DOMAIN items |-> menu_format_datetime_iso(items[i].dueAt)]

\* strftime("%a") of a date whose weekday() is w (0 is Monday): the C
\* library is handed tm_wday = (w + 1) % 7 (0 is Sunday) and reads the
\* abbreviated day names of LC_TIME there; LC_TIME is "C", neither front end
\* calls setlocale.
strftime_a(w) ==
    LET abday == << "Sun", "Mon", "Tue", "Wed", "Thu", "Fri", "Sat" >>
        tm_wday == (w + 1) % 7
    IN  abday[tm_wday + 1]

\* A faulty menu label that reads WEEKDAYS at weekday() itself.
menu_weekday_name_unshifted(w) == WEEKDAYS[w + 1]

\* Menu get_todays_classes, line 308: WEEKDAYS[(weekday() + 1) % 7].
menu_weekday_name(w) == WEEKDAYS[((w + 1) % 7) + 1]

\* get_todays_classes, the loops: for s in subjects, for slot in schedule.
RECURSIVE todays_loop(_, _)
todays_loop(subjects, weekday_name) ==
    IF subjects = << >> THEN << >>
    ELSE LET s == Head(subjects)
             hit == SelectSeq(s.schedule, LAMBDA slot : slot.day = << weekday_name >>)
         IN  [i \in DOMAIN hit |-> [subject |-> s, slot |-> hit[i]]]
                 \o todays_loop(Tail(subjects), weekday_name)

get_todays_classes(d, w) == todays_loop(d.subjects, strftime_a(w))

menu_get_todays_classes(d, w) == todays_loop(d.subjects, menu_weekday_name(w))

DateInputs == {<< >>, << "bad" >>}
DueInputs == {<< >>, << "bad" >>}
TitleInputs == {<< >>, << "HW1" >>}

\* on_save / add_subject: name.strip() must be non-empty, the schedule text,
\* when non-empty, must parse. checkDay: the GUI's parser.
form_validate(f, checkDay) ==
    LET name == Strip(f.name)
        raw == Strip(f.sched)
        r == IF raw = << >> THEN [ok |-> TRUE, items |-> << >>]
             ELSE IF checkDay THEN parse_schedule_string(raw)
             ELSE menu_parse_schedule_string(raw)
    IN  IF name = << >> THEN [ok |-> FALSE, msg |-> "Name cannot be empty."]
        ELSE IF ~r.ok THEN r
        ELSE [ok |-> TRUE, name |-> name, code |-> Strip(f.code),
              prof |-> Strip(f.prof), schedule |-> r.items]

\* What on_save (GUI) and add_subject (menu) make of each form.
GuiFormResults == {form_validate(f, TRUE) : f \in SubjectForms}
MenuFormResults == {form_validate(f, FALSE) : f \in SubjectForms}

\* ---------------------------------------------------------- GUI actions
\* What waits for the user in the GUI while nothing else of it runs: the
\* subject form; a dialog that asks (askstring, askyesno) after load_data()
\* has read the document into the handler's local variable data; the
\* showinfo after a save, which the refresh of the screen follows. The text
\* menu, a process of its own, runs meanwhile.
\* A dialog of a handler: data is the document it read, id the row it is
\* about (NoId where the question is not about a row).
Asking(dialog, data, id) ==
    [open |-> TRUE, dialog |-> dialog, data |-> data, id |-> id]
Showinfo(kind) == [open |-> TRUE, dialog |-> "showinfo", next |-> kind]

GuiWaits(dialog) ==
    /\ "gui" \in frontEnds /\ gui.started
    /\ gui.form.open /\ gui.form.dialog = dialog

\* No window: the GUI before it is started and after on_exit.
NoGui ==
    [started |-> FALSE, screen |-> "none", rows |-> {}, buttons |-> FALSE,
     form |-> Closed]

\* datetime.now() / date.today() as the views read it: the first week of
\* January 2024 at midnight, and one time of day.
NowValues ==
    {[day |-> k, hour |-> 0, minute |-> 0, second |-> 0] : k \in 1..7}
        \cup {[day |-> 3, hour |-> 10, minute |-> 30, second |-> 0]}

\* show_dashboard's upcoming section on the document d: the comparison with
\* datetime.now() raises whatever the time is, or does not.
dashboard_outcome(d) ==
    LET up == upcoming_assignments(d, CHOOSE nowv \in NowValues : TRUE)
    IN  IF up.ok THEN "ok" ELSE up.error

\* PlannerApp.__init__: _create_nav, then show_dashboard (which loads). What
\* show_dashboard raises leaves __init__ and main(): no window, the process
\* ends with the traceback.
GuiStart ==
    /\ "gui" \in frontEnds /\ ~gui.started
    /\ LET data == load_data(disk, now)
       IN  /\ disk' = data
           /\ gui' = IF dashboard_outcome(data) = "ok"
                     THEN show_dashboard([gui EXCEPT !.started = TRUE])
                     ELSE NoGui
           /\ Done("gui", "start", dashboard_outcome(data), NoArg)
    /\ UNCHANGED << backups, now, frontEnds, menu >>

\* on_exit (the user confirms): destroy(), sys.exit(0).
GuiExit ==
    /\ GuiIdle
    /\ gui' = NoGui
    /\ Done("gui", "on_exit", "ok", NoArg)
    /\ UNCHANGED << disk, backups, now, frontEnds, menu >>

\* The navigation buttons Dashboard, Subjects, Attendance, Assignments.
GuiShow ==
    /\ GuiIdle
    /\ \E kind \in {"dashboard", "subjects", "attendance", "assignments"} :
         LET data == load_data(disk, now)
         IN  /\ disk' = data
             /\ gui' = IF kind = "dashboard" THEN show_dashboard(gui)
                       ELSE show_screen(gui, kind, data)
             /\ Done("gui", "load",
                     IF kind = "dashboard" THEN dashboard_outcome(data) ELSE "ok",
                     NoArg)
    /\ UNCHANGED << backups, now, frontEnds, menu >>

\* The showinfo that follows a save is closed: the handler goes on to
\* show_subjects / show_attendance / show_assignments / show_dashboard,
\* which reads data.json again.
GuiShowinfoOk ==
    /\ GuiWaits("showinfo")
    /\ LET data == load_data(disk, now)
       IN  /\ disk' = data
           /\ gui' = IF gui.form.next = "dashboard" THEN show_dashboard(gui)
                     ELSE show_screen(gui, gui.form.next, data)
           /\ Done("gui", "load",
                   IF gui.form.next = "dashboard" THEN dashboard_outcome(data)
                   ELSE "ok",
                   NoArg)
    /\ UNCHANGED << backups, now, frontEnds, menu >>

\* add_subject_dialog: the empty form opens (it grabs the application).
GuiOpenAddForm ==
    /\ GuiIdle
    /\ gui' = [gui EXCEPT !.form = [open |-> TRUE, dialog |-> "subject_form",
                                   edit |-> FALSE, id |-> NoId]]
    /\ Done("gui", "open_form", "ok", NoArg)
    /\ UNCHANGED << disk, backups, now, frontEnds, menu >>

\* edit_subject_dialog: the selected row's subject is looked up, then the
\* form opens on it.
GuiOpenEditForm ==
    /\ GuiIdle /\ gui.screen = "subjects" /\ gui.buttons
    /\ \E sid \in gui.rows :
         LET data == load_data(disk, now)
         IN  /\ disk' = data
             /\ IF IndexOfId(data.subjects, sid) = 0
                THEN /\ Done("gui", "update_subject", "NotFoundError", [id |-> sid])
                     /\ gui' = gui
                ELSE /\ Done("gui", "open_form", "ok", [id |-> sid])
                     /\ gui' = [gui EXCEPT !.form =
                                   [open |-> TRUE, dialog |-> "subject_form",
                                    edit |-> TRUE, id |-> sid]]
    /\ UNCHANGED << backups, now, frontEnds, menu >>

\* _subject_form.on_save: validation, load_data, the change, save_data,
\* then the showinfo.
GuiFormSave ==
    /\ GuiWaits("subject_form")
    /\ \E v \in GuiFormResults :
         LET op == IF gui.form.edit THEN "update_subject" ELSE "add_subject"
             data == load_data(disk, now)
         IN  IF ~v.ok
             THEN /\ Done("gui", op, "ValidationError", NoArg)
                  /\ UNCHANGED << disk, gui >>
             ELSE IF gui.form.edit
             THEN /\ disk' = save_data(update_subject(data, gui.form.id, v.name,
                                                      v.code, v.prof, v.schedule))
                  /\ gui' = [gui EXCEPT !.form = Showinfo("subjects")]
                  /\ Done("gui", op, "ok", [id |-> gui.form.id])
             ELSE /\ Len(data.subjects) < MaxSubjects
                  /\ \E id \in gen_id :
                       /\ disk' = save_data(add_subject(data,
                              new_subject(id, v.name, v.code, v.prof, v.schedule, now)))
                       /\ gui' = [gui EXCEPT !.form = Showinfo("subjects")]
                       /\ Done("gui", op, "ok", [id |-> id])
    /\ UNCHANGED << backups, now, frontEnds, menu >>

\* The form's Cancel button.
GuiFormCancel ==
    /\ GuiWaits("subject_form")
    /\ gui' = [gui EXCEPT !.form = Closed]
    /\ Done("gui", "open_form", "cancelled", NoArg)
    /\ UNCHANGED << disk, backups, now, frontEnds, menu >>

\* delete_subject_dialog, lines 380-394: the selected row, load_data, the
\* lookup, then the confirmation is asked.
GuiDeleteSubjectOpen ==
    /\ GuiIdle /\ gui.screen = "subjects" /\ gui.buttons
    /\ \E sid \in gui.rows :
         LET data == load_data(disk, now)
         IN  /\ disk' = data
             /\ IF IndexOfId(data.subjects, sid) = 0
                THEN /\ gui' = gui
                     /\ Done("gui", "delete_subject", "NotFoundError", [id |-> sid])
                ELSE /\ gui' = [gui EXCEPT !.form =
                                   Asking("delete_subject", data, sid)]
                     /\ Done("gui", "delete_subject", "asking", [id |-> sid])
    /\ UNCHANGED << backups, now, frontEnds, menu >>

\* Lines 394-399: on yes the cascade on the document read before the
\* question, save_data of it, the showinfo.
GuiDeleteSubjectAnswer ==
    /\ GuiWaits("delete_subject")
    /\ \E yes \in BOOLEAN :
         IF ~yes
         THEN /\ disk' = disk
              /\ gui' = [gui EXCEPT !.form = Closed]
              /\ Done("gui", "delete_subject", "cancelled", [id |-> gui.form.id])
         ELSE LET data == gui.form.data
                  d2 == delete_subject(data, gui.form.id)
              IN  /\ disk' = save_data(d2)
                  /\ gui' = [gui EXCEPT !.form = Showinfo("subjects")]
                  /\ Done("gui", "delete_subject", "ok",
                          [id |-> gui.form.id,
                           removed |-> (Len(data.attendance) - Len(d2.attendance))
                                     + (Len(data.assignments) - Len(d2.assignments))])
    /\ UNCHANGED << backups, now, frontEnds, menu >>

\* record_attendance_dialog, lines 454-460: load_data, then the first question.
GuiRecordAttendanceOpen ==
    /\ GuiIdle
    /\ LET data == load_data(disk, now)
       IN  /\ disk' = data
           /\ IF data.subjects = << >>
              THEN /\ gui' = gui
                   /\ Done("gui", "record_attendance", "info", NoArg)
              ELSE /\ gui' = [gui EXCEPT !.form = Asking("record_attendance", data, NoId)]
                   /\ Done("gui", "record_attendance", "asking", NoArg)
    /\ UNCHANGED << backups, now, frontEnds, menu >>

\* Lines 461-485: the answers; the record is appended to the document read
\* before the questions. n = 0 is a text that is no number of the listing;
\* among those, one that str.isdigit accepts and int() rejects (raises)
\* leaves the callback with a ValueError.
GuiRecordAttendanceAnswer ==
    /\ GuiWaits("record_attendance")
    /\ LET data == gui.form.data
       IN  \E n \in 0..Len(data.subjects), dt \in DateInputs, present \in BOOLEAN :
           \E raises \in IF n = 0 THEN BOOLEAN ELSE {FALSE} :
             IF raises
             THEN /\ disk' = disk
                  /\ gui' = [gui EXCEPT !.form = Closed]
                  /\ Done("gui", "record_attendance", "crash", NoArg)
             ELSE IF n = 0 \/ (dt # << >> /\ ~fromisoformat(dt).ok)
             THEN /\ disk' = disk
                  /\ gui' = [gui EXCEPT !.form = Closed]
                  /\ Done("gui", "record_attendance", "ValidationError", NoArg)
             ELSE /\ Len(data.attendance) < MaxAttendance
                  /\ \E id \in gen_id :
                       /\ disk' = save_data(add_attendance(data,
                              new_attendance(id, data.subjects[n].id, Today,
                                             present, now)))
                       /\ gui' = [gui EXCEPT !.form = Showinfo("attendance")]
                       /\ Done("gui", "record_attendance", "ok", [id |-> id])
    /\ UNCHANGED << backups, now, frontEnds, menu >>

\* delete_attendance_entry, lines 489-503: the selected row, load_data, the
\* lookup, then the confirmation is asked.
GuiDeleteAttendanceOpen ==
    /\ GuiIdle /\ gui.screen = "attendance" /\ gui.buttons
    /\ \E id \in gui.rows :
         LET data == load_data(disk, now)
         IN  /\ disk' = data
             /\ IF IndexOfId(data.attendance, id) = 0
                THEN /\ gui' = gui
                     /\ Done("gui", "delete_attendance", "NotFoundError", [id |-> id])
                ELSE /\ gui' = [gui EXCEPT !.form =
                                   Asking("delete_attendance", data, id)]
                     /\ Done("gui", "delete_attendance", "asking", [id |-> id])
    /\ UNCHANGED << backups, now, frontEnds, menu >>

\* Lines 503-506.
GuiDeleteAttendanceAnswer ==
    /\ GuiWaits("delete_attendance")
    /\ \E yes \in BOOLEAN :
         IF ~yes
         THEN /\ disk' = disk
              /\ gui' = [gui EXCEPT !.form = Closed]
              /\ Done("gui", "delete_attendance", "cancelled", [id |-> gui.form.id])
         ELSE /\ disk' = save_data(delete_attendance(gui.form.data, gui.form.id))
              /\ gui' = [gui EXCEPT !.form = Showinfo("attendance")]
              /\ Done("gui", "delete_attendance", "ok", [id |-> gui.form.id])
    /\ UNCHANGED << backups, now, frontEnds, menu >>

\* add_assignment_dialog, lines 554-563: load_data, then the first question.
GuiAddAssignmentOpen ==
    /\ GuiIdle
    /\ LET data == load_data(disk, now)
       IN  /\ disk' = data
           /\ gui' = [gui EXCEPT !.form = Asking("add_assignment", data, NoId)]
           /\ Done("gui", "add_assignment", "asking", NoArg)
    /\ UNCHANGED << backups, now, frontEnds, menu >>

\* A faulty add_assignment_dialog that appends and saves before it validates.
GuiAddAssignmentAnswer_saves_first ==
    /\ GuiWaits("add_assignment")
    /\ LET data == gui.form.data
       IN  \E n \in 0..Len(data.subjects), title \in TitleInputs, due \in DueInputs :
             /\ Len(data.assignments) < MaxAssignments
             /\ \E id \in gen_id :
                  LET sid == IF n = 0 THEN NoId ELSE data.subjects[n].id
                  IN  /\ disk' = save_data(add_assignment(data,
                             new_assignment(id, sid, title, << >>, due, now)))
                      /\ gui' = [gui EXCEPT !.form = Showinfo("assignments")]
                      /\ IF title = << >> \/ (due # << >> /\ ~fromisoformat(due).ok)
                         THEN Done("gui", "add_assignment", "ValidationError", NoArg)
                         ELSE Done("gui", "add_assignment", "ok", [id |-> id])
    /\ UNCHANGED << backups, now, frontEnds, menu >>

\* Lines 559-587: the answers (n = 0 is a blank or unusable subject number;
\* where subjects are listed, one that str.isdigit accepts and int() rejects
\* leaves the callback with a ValueError); the assignment is appended to
\* the document read before the questions.
GuiAddAssignmentAnswer ==
    /\ GuiWaits("add_assignment")
    /\ LET data == gui.form.data
       IN  \E n \in 0..Len(data.subjects), title \in TitleInputs, due \in DueInputs :
           \E raises \in IF n = 0 /\ data.subjects # << >> THEN BOOLEAN ELSE {FALSE} :
             IF raises
             THEN /\ disk' = disk
                  /\ gui' = [gui EXCEPT !.form = Closed]
                  /\ Done("gui", "add_assignment", "crash", NoArg)
             ELSE IF title = << >> \/ (due # << >> /\ ~fromisoformat(due).ok)
             THEN /\ disk' = disk
                  /\ gui' = [gui EXCEPT !.form = Closed]
                  /\ Done("gui", "add_assignment", "ValidationError", NoArg)
             ELSE /\ Len(data.assignments) < MaxAssignments
                  /\ \E id \in gen_id :
                       LET sid == IF n = 0 THEN NoId ELSE data.subjects[n].id
                       IN  /\ disk' = save_data(add_assignment(data,
                                  new_assignment(id, sid, title, << >>, due, now)))
                           /\ gui' = [gui EXCEPT !.form = Showinfo("assignments")]
                           /\ Done("gui", "add_assignment", "ok", [id |-> id])
    /\ UNCHANGED << backups, now, frontEnds, menu >>

\* GUI toggle_assignment_completion, lines 599-606: the id of the selected
\* row; the result is saved and "Toggled status." shown whether or not the
\* id was found.
GuiToggleAssignment ==
    /\ GuiIdle /\ gui.screen = "assignments" /\ gui.buttons
    /\ \E aid \in gui.rows :
         /\ disk' = save_data(toggle_by_id(load_data(disk, now), aid))
         /\ Done("gui", "toggle_assignment", "ok", [id |-> aid])
    /\ gui' = [gui EXCEPT !.form = Showinfo("assignments")]
    /\ UNCHANGED << backups, now, frontEnds, menu >>

\* delete_assignment, lines 610-624: the selected row, load_data, the
\* lookup, then the confirmation is asked.
GuiDeleteAssignmentOpen ==
    /\ GuiIdle /\ gui.screen = "assignments" /\ gui.buttons
    /\ \E aid \in gui.rows :
         LET data == load_data(disk, now)
         IN  /\ disk' = data
             /\ IF IndexOfId(data.assignments, aid) = 0
                THEN /\ gui' = gui
                     /\ Done("gui", "delete_assignment", "NotFoundError", [id |-> aid])
                ELSE /\ gui' = [gui EXCEPT !.form =
                                   Asking("delete_assignment", data, aid)]
                     /\ Done("gui", "delete_assignment", "asking", [id |-> aid])
    /\ UNCHANGED << backups, now, frontEnds, menu >>

\* Lines 624-627.
GuiDeleteAssignmentAnswer ==
    /\ GuiWaits("delete_assignment")
    /\ \E yes \in BOOLEAN :
         IF ~yes
         THEN /\ disk' = disk
              /\ gui' = [gui EXCEPT !.form = Closed]
              /\ Done("gui", "delete_assignment", "cancelled", [id |-> gui.form.id])
         ELSE /\ disk' = save_data(delete_assignment(gui.form.data, gui.form.id))
              /\ gui' = [gui EXCEPT !.form = Showinfo("assignments")]
              /\ Done("gui", "delete_assignment", "ok", [id |-> gui.form.id])
    /\ UNCHANGED << backups, now, frontEnds, menu >>

\* GUI export_data: the file dialog returns the target, then load_data and
\* the write of the document to it. The target may be a file elsewhere
\* (nothing of the state changes), data.json itself, or a file with the
\* name of a backup, backups/data_backup_<ts>.json, there already or not.
GuiExport ==
    /\ GuiIdle
    /\ \E file \in {"new", "data", "backup"}, ts \in Clock :
         LET data == load_data(disk, now)
         IN  /\ file # "backup" => ts = 0
             /\ disk' = data
             /\ backups' = IF file = "backup" THEN [backups EXCEPT ![ts] = data]
                           ELSE backups
             /\ Done("gui", "export", "ok", [file |-> file, ts |-> ts])
    /\ UNCHANGED << now, gui, frontEnds, menu >>

\* backup_now: backup_data(); the showinfo and _refresh_backups that follow
\* touch the list of backups only.
GuiBackupNow ==
    /\ GuiIdle /\ disk # Absent
    /\ backups' = backup_data(backups, disk, now)
    /\ Done("gui", "backup", "ok", [ts |-> now])
    /\ UNCHANGED << disk, now, gui, frontEnds, menu >>

\* restore_selected_backup: the Backups list (Refresh lists the directory)
\* holds the existing backup files; the user selects one and confirms, then
\* backup_data() and the copy run. The screen is not refreshed.
GuiRestore ==
    /\ GuiIdle /\ disk # Absent
    /\ \E ts \in Clock :
         /\ backups[ts] # Absent
         /\ LET r == restore_files(backups, disk, ts, now)
            IN  /\ backups' = r.backups
                /\ disk' = r.disk
         /\ Done("gui", "restore", "ok", [ts |-> ts])
    /\ UNCHANGED << now, gui, frontEnds, menu >>

\* The files the user may pick for Import Data: one that json.load rejects,
\* an export of a planner document, and well-formed JSON whose records break
\* the planner's own rules (a reference to no subject, an unknown weekday).
MalformedFile == [malformed |-> TRUE]
ExportedDoc ==
    [subjects |-> << new_subject(1, << "Algebra" >>, << >>, << >>, << >>, 0) >>,
     attendance |-> << >>,
     assignments |-> << new_assignment(1, 1, << "Essay" >>, << >>, << >>, 0) >>,
     meta |-> [createdAt |-> 0]]
UncheckedDoc ==
    [subjects |-> << new_subject(1, << "Art" >>, << >>, << >>,
                        << [day |-> << "Funday" >>, start |-> << "1" >>,
                            end |-> << "2" >>, location |-> << >>] >>, 0) >>,
     attendance |-> << new_attendance(1, 2, Today, TRUE, 0) >>,
     assignments |-> << >>,
     meta |-> [createdAt |-> 0]]

ImportFiles == {MalformedFile, ExportedDoc, UncheckedDoc}

\* init_demo's two subjects (the second slot has no "location" key).
demo_subs(id1, id2, t) ==
    << [id |-> id1, name |-> << "Engineering", " ", "Mechanics" >>,
        code |-> << "ME101" >>, prof |-> << "Dr.", " ", "Seenu" >>,
        schedule |-> << [day |-> << "Mon" >>, start |-> << "09:00" >>,
                         end |-> << "10:30" >>,
                         location |-> << "Room", " ", "101" >>] >>,
        createdAt |-> t],
       [id |-> id2, name |-> << "Calculus" >>,
        code |-> << "MA101" >>, prof |-> << "Dr.", " ", "Roy" >>,
        schedule |-> << [day |-> << "Tue" >>, start |-> << "11:00" >>,
                         end |-> << "12:30" >>] >>,
        createdAt |-> t] >>

demo_data(id1, id2, t) ==
    [subjects |-> demo_subs(id1, id2, t), attendance |-> << >>,
     assignments |-> << >>, meta |-> [createdAt |-> t]]

\* The two gen_id() draws of init_demo.
DemoIds == gen_id \X gen_id

\* GUI import_data (a file is chosen and the user confirms): backup_data(),
\* json.load of the file, save_data of what it held, the showinfo. What
\* json.load raises leaves the callback after the backup.
GuiImport ==
    /\ GuiIdle /\ disk # Absent
    /\ \E file \in ImportFiles :
         /\ backups' = backup_data(backups, disk, now)
         /\ IF file = MalformedFile
            THEN /\ UNCHANGED << disk, gui >>
                 /\ Done("gui", "import", "crash", [file |-> file])
            ELSE /\ disk' = save_data(file)
                 /\ gui' = [gui EXCEPT !.form = Showinfo("dashboard")]
                 /\ Done("gui", "import", "ok", [file |-> file])
    /\ UNCHANGED << now, frontEnds, menu >>

\* GUI init_demo (the user confirms): backup_data(), save_data(demo), the
\* showinfo.
GuiInitDemo ==
    /\ GuiIdle /\ disk # Absent
    /\ \E ids \in DemoIds :
         /\ backups' = backup_data(backups, disk, now)
         /\ disk' = save_data(demo_data(ids[1], ids[2], now))
    /\ gui' = [gui EXCEPT !.form = Showinfo("dashboard")]
    /\ Done("gui", "init_demo", "ok", NoArg)
    /\ UNCHANGED << now, frontEnds, menu >>

\* --------------------------------------------------------- menu actions
\* What the menu's function holds while it waits at a prompt: at the number
\* of choose_subject the ids of the subjects listed; at the later prompts the
\* subject choose_subject returned (its id); at the number of toggle and at
\* the filename of export the document read.
MenuAsks(op, prompt) ==
    /\ "menu" \in frontEnds /\ menu.started
    /\ menu.asking.open /\ menu.asking.op = op /\ menu.asking.prompt = prompt

\* No process: the menu before it is started, after choice 0 and after an
\* exception main_menu does not catch (the traceback, the process is gone).
NoMenu == [started |-> FALSE, asking |-> Closed]

\* python planner_menu.py: main_menu prints the options; nothing is read.
MenuStart ==
    /\ "menu" \in frontEnds /\ ~menu.started
    /\ menu' = [started |-> TRUE, asking |-> Closed]
    /\ Done("menu", "main_menu", "ok", NoArg)
    /\ UNCHANGED << disk, backups, now, gui, frontEnds >>

\* Choice 0 at the menu, or Ctrl-C at any prompt (KeyboardInterrupt is
\* what __main__ catches).
MenuExit ==
    /\ "menu" \in frontEnds /\ menu.started
    /\ menu' = NoMenu
    /\ Done("menu", "exit", "ok", NoArg)
    /\ UNCHANGED << disk, backups, now, gui, frontEnds >>

\* list_subjects, attendance_report: load only.
MenuView ==
    /\ MenuUp
    /\ disk' = load_data(disk, now)
    /\ Done("menu", "load", "ok", NoArg)
    /\ UNCHANGED << backups, now, gui, frontEnds, menu >>

\* Menu add_subject: the prompts are validated before load_data is called.
MenuAddSubject ==
    /\ MenuUp
    /\ \E v \in MenuFormResults :
         LET data == load_data(disk, now)
         IN  IF ~v.ok
             THEN /\ disk' = disk
                  /\ Done("menu", "add_subject", "ValidationError", NoArg)
             ELSE /\ Len(data.subjects) < MaxSubjects
                  /\ \E id \in gen_id :
                       /\ disk' = save_data(add_subject(data,
                              new_subject(id, v.name, v.code, v.prof, v.schedule, now)))
                       /\ Done("menu", "add_subject", "ok", [id |-> id])
    /\ UNCHANGED << backups, now, gui, frontEnds, menu >>

\* Menu record_attendance, line 178: choose_subject loads and lists the
\* subjects, then waits for the number.
MenuRecordAttendanceOpen ==
    /\ MenuUp
    /\ LET data == load_data(disk, now)
       IN  /\ disk' = data
           /\ IF data.subjects = << >>
              THEN /\ menu' = menu
                   /\ Done("menu", "record_attendance", "info", NoArg)
              ELSE /\ menu' = [menu EXCEPT !.asking =
                          [open |-> TRUE, op |-> "record_attendance",
                           prompt |-> "number",
                           listing |-> [i \in DOMAIN data.subjects |->
                                           data.subjects[i].id]]]
                   /\ Done("menu", "record_attendance", "asking", NoArg)
    /\ UNCHANGED << backups, now, gui, frontEnds >>

\* Menu add_assignment, lines 223-224: choose_subject loads and lists the
\* subjects, then waits for the number; with no subject it returns None and
\* the assignment will have none.
MenuAddAssignmentOpen ==
    /\ MenuUp
    /\ LET data == load_data(disk, now)
       IN  /\ disk' = data
           /\ menu' = [menu EXCEPT !.asking =
                  IF data.subjects = << >>
                  THEN [open |-> TRUE, op |-> "add_assignment",
                        prompt |-> "details", subject |-> NoId]
                  ELSE [open |-> TRUE, op |-> "add_assignment",
                        prompt |-> "number",
                        listing |-> [i \in DOMAIN data.subjects |->
                                        data.subjects[i].id]]]
    /\ Done("menu", "add_assignment", "asking", NoArg)
    /\ UNCHANGED << backups, now, gui, frontEnds >>

\* choose_subject, lines 164-174: the number typed picks a subject of the
\* listing printed before the prompt. n = 0 is a text that is no number of
\* the listing (None is returned: record_attendance gives up, add_assignment
\* goes on with no subject); among those, one that str.isdigit accepts and
\* int() rejects (raises) ends the process with a ValueError.
MenuChooseSubject ==
    /\ \E op \in {"record_attendance", "add_assignment"} :
         /\ MenuAsks(op, "number")
         /\ \E n \in 0..Len(menu.asking.listing) :
            \E raises \in IF n = 0 THEN BOOLEAN ELSE {FALSE} :
              IF raises
              THEN /\ menu' = NoMenu
                   /\ Done("menu", op, "crash", NoArg)
              ELSE IF n = 0 /\ op = "record_attendance"
              THEN /\ menu' = [menu EXCEPT !.asking = Closed]
                   /\ Done("menu", op, "ValidationError", NoArg)
              ELSE /\ menu' = [menu EXCEPT !.asking =
                          [open |-> TRUE, op |-> op, prompt |-> "details",
                           subject |-> IF n = 0 THEN NoId
                                       ELSE menu.asking.listing[n]]]
                   /\ Done("menu", op, "chosen", [n |-> n])
    /\ UNCHANGED << disk, backups, now, gui, frontEnds >>

\* Lines 181-197: the date and present/absent are asked, then load_data,
\* the record for the subject chosen before, save_data.
MenuRecordAttendanceAnswer ==
    /\ MenuAsks("record_attendance", "details")
    /\ \E dt \in DateInputs, present \in BOOLEAN :
         IF Strip(dt) # << >> /\ ~fromisoformat(Strip(dt)).ok
         THEN /\ disk' = disk
              /\ Done("menu", "record_attendance", "ValidationError", NoArg)
         ELSE LET data == load_data(disk, now)
              IN  /\ Len(data.attendance) < MaxAttendance
                  /\ \E id \in gen_id :
                       /\ disk' = save_data(add_attendance(data,
                              new_attendance(id, menu.asking.subject, Today,
                                             present, now)))
                       /\ Done("menu", "record_attendance", "ok", [id |-> id])
    /\ menu' = [menu EXCEPT !.asking = Closed]
    /\ UNCHANGED << backups, now, gui, frontEnds >>

\* Lines 225-252: the title and the due date, each stripped, then
\* load_data, the assignment for the subject chosen before, save_data.
MenuAddAssignmentAnswer ==
    /\ MenuAsks("add_assignment", "details")
    /\ \E title \in TitleInputs, due \in DueInputs :
         IF Strip(title) = << >> \/ (Strip(due) # << >> /\ ~fromisoformat(Strip(due)).ok)
         THEN /\ disk' = disk
              /\ Done("menu", "add_assignment", "ValidationError", NoArg)
         ELSE LET data == load_data(disk, now)
              IN  /\ Len(data.assignments) < MaxAssignments
                  /\ \E id \in gen_id :
                       /\ disk' = save_data(add_assignment(data,
                              new_assignment(id, menu.asking.subject, Strip(title),
                                             << >>, Strip(due), now)))
                       /\ Done("menu", "add_assignment", "ok", [id |-> id])
    /\ menu' = [menu EXCEPT !.asking = Closed]
    /\ UNCHANGED << backups, now, gui, frontEnds >>

\* Menu toggle_assignment_completion, lines 280-291: load_data, the
\* numbered listing, then the number is asked.
MenuToggleAssignmentOpen ==
    /\ MenuUp
    /\ LET data == load_data(disk, now)
       IN  /\ disk' = data
           /\ IF data.assignments = << >>
              THEN /\ menu' = menu
                   /\ Done("menu", "toggle_assignment", "info", NoArg)
              ELSE /\ menu' = [menu EXCEPT !.asking =
                                 [open |-> TRUE, op |-> "toggle_assignment",
                                  prompt |-> "number", data |-> data]]
                   /\ Done("menu", "toggle_assignment", "asking", NoArg)
    /\ UNCHANGED << backups, now, gui, frontEnds >>

\* Lines 292-303: the number n of the listing; the document read before the
\* question is changed and saved. n = 0 is a text that is no number of the
\* listing; among those, one that str.isdigit accepts and int() rejects
\* (raises) ends the process with a ValueError.
MenuToggleAssignmentAnswer ==
    /\ MenuAsks("toggle_assignment", "number")
    /\ LET data == menu.asking.data
       IN  \E n \in 0..Len(data.assignments) :
           \E raises \in IF n = 0 THEN BOOLEAN ELSE {FALSE} :
             IF raises
             THEN /\ disk' = disk
                  /\ menu' = NoMenu
                  /\ Done("menu", "toggle_assignment", "crash", NoArg)
             ELSE IF n = 0
             THEN /\ disk' = disk
                  /\ menu' = [menu EXCEPT !.asking = Closed]
                  /\ Done("menu", "toggle_assignment", "ValidationError", NoArg)
             ELSE /\ disk' = save_data(toggle_by_index(data, n))
                  /\ menu' = [menu EXCEPT !.asking = Closed]
                  /\ Done("menu", "toggle_assignment", "ok",
                          [id |-> data.assignments[n].id, n |-> n])
    /\ UNCHANGED << backups, now, gui, frontEnds >>

\* Menu export_data, lines 368-369: load_data, then the filename is asked.
MenuExportOpen ==
    /\ MenuUp
    /\ LET data == load_data(disk, now)
       IN  /\ disk' = data
           /\ menu' = [menu EXCEPT !.asking =
                          [open |-> TRUE, op |-> "export",
                           prompt |-> "filename", data |-> data]]
    /\ Done("menu", "export", "asking", NoArg)
    /\ UNCHANGED << backups, now, gui, frontEnds >>

\* Lines 370-374: the document read before the prompt is written to the
\* file named: a file elsewhere (nothing of the state changes), data.json
\* itself, a file with the name of a backup, backups/data_backup_<ts>.json,
\* there already or not, or a path in a directory that does not exist (open
\* raises FileNotFoundError, which ends the process).
MenuExportAnswer ==
    /\ MenuAsks("export", "filename")
    /\ \E file \in {"new", "data", "backup", "nodir"}, ts \in Clock :
         LET data == menu.asking.data
         IN  /\ file # "backup" => ts = 0
             /\ disk' = IF file = "data" THEN data ELSE disk
             /\ backups' = IF file = "backup" THEN [backups EXCEPT ![ts] = data]
                           ELSE backups
             /\ IF file = "nodir"
                THEN /\ menu' = NoMenu
                     /\ Done("menu", "export", "crash", [file |-> file, ts |-> ts])
                ELSE /\ menu' = [menu EXCEPT !.asking = Closed]
                     /\ Done("menu", "export", "ok", [file |-> file, ts |-> ts])
    /\ UNCHANGED << now, gui, frontEnds >>

\* Menu backup_now: backup_data() with no load before it; shutil.copy2
\* raises FileNotFoundError when data.json does not exist, and main_menu
\* catches nothing but KeyboardInterrupt.
MenuBackupNow ==
    /\ MenuUp
    /\ IF disk = Absent
       THEN /\ backups' = backups
            /\ menu' = NoMenu
            /\ Done("menu", "backup", "crash", NoArg)
       ELSE /\ backups' = backup_data(backups, disk, now)
            /\ menu' = menu
            /\ Done("menu", "backup", "ok", [ts |-> now])
    /\ UNCHANGED << disk, now, gui, frontEnds >>

\* Menu import_data: backup_data(), json.load of the file, save_data.
MenuImport ==
    /\ MenuUp
    /\ \E file \in ImportFiles :
         IF disk = Absent
         THEN /\ UNCHANGED << disk, backups >>
              /\ menu' = NoMenu
              /\ Done("menu", "import", "crash", [file |-> file])
         ELSE /\ backups' = backup_data(backups, disk, now)
              /\ IF file = MalformedFile
                 THEN /\ disk' = disk
                      /\ menu' = NoMenu
                      /\ Done("menu", "import", "crash", [file |-> file])
                 ELSE /\ disk' = save_data(file)
                      /\ menu' = menu
                      /\ Done("menu", "import", "ok", [file |-> file])
    /\ UNCHANGED << now, gui, frontEnds >>

\* Menu init_demo: save_data(demo), with no backup and no load.
MenuInitDemo ==
    /\ MenuUp
    /\ \E ids \in DemoIds : disk' = save_data(demo_data(ids[1], ids[2], now))
    /\ Done("menu", "init_demo", "ok", NoArg)
    /\ UNCHANGED << backups, now, gui, frontEnds, menu >>

\* A second passes.
Tick ==
    /\ now < MaxClock
    /\ now' = now + 1
    /\ Done("clock", "tick", "ok", NoArg)
    /\ UNCHANGED << disk, backups, gui, frontEnds, menu >>

\* ------------------------------------------------------- specifications
InitFiles ==
    /\ disk = Absent
    /\ backups = [t \in Clock |-> Absent]
    /\ now = 0
    /\ gui = NoGui
    /\ menu = NoMenu
    /\ writes = 0
    /\ last = [fe |-> "none", op |-> "init", out |-> "ok", arg |-> NoArg]

\* Both front ends are run on the directory, in any interleaving.
Init == InitFiles /\ frontEnds = {"gui", "menu"}

\* One front end only.
InitOne == InitFiles /\ frontEnds \in {{"gui"}, {"menu"}}

\* An operation of a session of any length.
Op(A) == A /\ UNCHANGED writes

\* An operation of a bounded session: those that change a file are counted.
BoundedOp(A) ==
    /\ A
    /\ writes' = IF << disk, backups >>' # << disk, backups >> THEN writes + 1
                 ELSE writes
    /\ writes' <= MaxWrites

\* Subjects, attendance and assignments.
NextPlanning ==
    \/ Op(GuiStart) \/ Op(GuiExit) \/ Op(GuiShow) \/ Op(GuiShowinfoOk)
    \/ Op(GuiOpenAddForm) \/ Op(GuiOpenEditForm) \/ Op(GuiFormSave)
    \/ Op(GuiFormCancel)
    \/ Op(GuiDeleteSubjectOpen) \/ Op(GuiDeleteSubjectAnswer)
    \/ Op(GuiRecordAttendanceOpen) \/ Op(GuiRecordAttendanceAnswer)
    \/ Op(GuiDeleteAttendanceOpen) \/ Op(GuiDeleteAttendanceAnswer)
    \/ Op(GuiAddAssignmentOpen) \/ Op(GuiAddAssignmentAnswer)
    \/ Op(GuiToggleAssignment)
    \/ Op(GuiDeleteAssignmentOpen) \/ Op(GuiDeleteAssignmentAnswer)
    \/ Op(MenuStart) \/ Op(MenuAddSubject) \/ Op(MenuInitDemo)

\* The files: backups, restore, import and export, with the additions and
\* the toggle of the assignments' screen.
NextStorage ==
    \/ Op(GuiStart) \/ Op(GuiShow) \/ Op(GuiShowinfoOk)
    \/ Op(GuiAddAssignmentOpen) \/ Op(GuiAddAssignmentAnswer)
    \/ Op(GuiToggleAssignment)
    \/ Op(GuiBackupNow) \/ Op(GuiRestore) \/ Op(GuiImport) \/ Op(GuiExport)
    \/ Op(MenuStart) \/ Op(MenuBackupNow) \/ Op(MenuImport)
    \/ Op(Tick)

\* Every operation but Import Data, in a bounded session.
NextOps ==
    \/ BoundedOp(GuiStart) \/ BoundedOp(GuiExit)
    \/ BoundedOp(GuiShow) \/ BoundedOp(GuiShowinfoOk)
    \/ BoundedOp(GuiOpenAddForm) \/ BoundedOp(GuiOpenEditForm)
    \/ BoundedOp(GuiFormSave) \/ BoundedOp(GuiFormCancel)
    \/ BoundedOp(GuiDeleteSubjectOpen) \/ BoundedOp(GuiDeleteSubjectAnswer)
    \/ BoundedOp(GuiRecordAttendanceOpen) \/ BoundedOp(GuiRecordAttendanceAnswer)
    \/ BoundedOp(GuiDeleteAttendanceOpen) \/ BoundedOp(GuiDeleteAttendanceAnswer)
    \/ BoundedOp(GuiAddAssignmentOpen) \/ BoundedOp(GuiAddAssignmentAnswer)
    \/ BoundedOp(GuiToggleAssignment)
    \/ BoundedOp(GuiDeleteAssignmentOpen) \/ BoundedOp(GuiDeleteAssignmentAnswer)
    \/ BoundedOp(GuiBackupNow) \/ BoundedOp(GuiRestore) \/ BoundedOp(GuiInitDemo)
    \/ BoundedOp(GuiExport)
    \/ BoundedOp(MenuStart) \/ BoundedOp(MenuExit)
    \/ BoundedOp(MenuView) \/ BoundedOp(MenuAddSubject)
    \/ BoundedOp(MenuRecordAttendanceOpen) \/ BoundedOp(MenuRecordAttendanceAnswer)
    \/ BoundedOp(MenuAddAssignmentOpen) \/ BoundedOp(MenuAddAssignmentAnswer)
    \/ BoundedOp(MenuChooseSubject)
    \/ BoundedOp(MenuExportOpen) \/ BoundedOp(MenuExportAnswer)
    \/ BoundedOp(MenuToggleAssignmentOpen) \/ BoundedOp(MenuToggleAssignmentAnswer)
    \/ BoundedOp(MenuBackupNow) \/ BoundedOp(MenuInitDemo)
    \/ BoundedOp(Tick)

\* The dialogs of the GUI beside the menu, each at a prompt of its own.
NextInterleaved ==
    \/ Op(GuiStart) \/ Op(GuiShow) \/ Op(GuiShowinfoOk)
    \/ Op(GuiDeleteSubjectOpen) \/ Op(GuiDeleteSubjectAnswer)
    \/ Op(GuiRecordAttendanceOpen) \/ Op(GuiRecordAttendanceAnswer)
    \/ Op(GuiAddAssignmentOpen) \/ Op(GuiAddAssignmentAnswer)
    \/ Op(MenuStart) \/ Op(MenuAddSubject)
    \/ Op(MenuRecordAttendanceOpen) \/ Op(MenuRecordAttendanceAnswer)
    \/ Op(MenuAddAssignmentOpen) \/ Op(MenuAddAssignmentAnswer)
    \/ Op(MenuChooseSubject)

SpecPlanning == Init /\ [][NextPlanning]_vars

SpecStorage == Init /\ [][NextStorage]_vars

SpecOneFrontEnd == InitOne /\ [][NextOps]_vars

SpecInterleaved == Init /\ [][NextInterleaved]_vars

\* ---------------------------------------------------------------- views
\* date.weekday() of a day of January 2024: 0 is Monday; 2024-01-01 is a
\* Monday.
weekday(v) == (v.day - 1) % 7

\* The subject ids asked about: those of the stored subjects and one more.
QueryIds == 1..(NumIds + 1)

\* compute_attendance_percent(subject_id), the same function in both files.
ComputeAttendancePercent ==
    /\ \E fe \in frontEnds, sid \in QueryIds :
          LET data == load_data(disk, now)
          IN  /\ disk' = data
              /\ Done(fe, "attendance_percent", "ok",
                      [id |-> sid, pct |-> compute_attendance_percent(data, sid)])
    /\ UNCHANGED << backups, now, gui, frontEnds, menu >>

\* GUI show_dashboard: today's classes, the upcoming deadlines, the alerts.
\* An exception leaves the callback with the sections built so far.
GuiDashboard ==
    /\ GuiIdle
    /\ \E nowv \in NowValues :
          LET data == load_data(disk, now)
              classes == get_todays_classes(data, weekday(nowv))
              up == upcoming_assignments(data, nowv)
          IN  /\ disk' = data
              /\ IF up.ok
                 THEN Done("gui", "dashboard", "ok",
                           [now |-> nowv, classes |-> classes, upcoming |-> up.items,
                            alerts |-> attendance_alerts(data)])
                 ELSE Done("gui", "dashboard", up.error,
                           [now |-> nowv, classes |-> classes])
    /\ gui' = show_dashboard(gui)
    /\ UNCHANGED << backups, now, frontEnds, menu >>

\* Menu dashboard: the same three sections; main_menu catches nothing but
\* KeyboardInterrupt, so an exception ends the program.
MenuDashboard ==
    /\ MenuUp
    /\ \E nowv \in NowValues :
          LET data == load_data(disk, now)
              classes == menu_get_todays_classes(data, weekday(nowv))
              up == upcoming_assignments(data, nowv)
          IN  /\ disk' = data
              /\ IF up.ok
                 THEN /\ menu' = menu
                      /\ Done("menu", "dashboard", "ok",
                              [now |-> nowv, classes |-> classes,
                               upcoming |-> up.items,
                               alerts |-> attendance_alerts(data)])
                 ELSE /\ menu' = NoMenu
                      /\ Done("menu", "dashboard", up.error,
                              [now |-> nowv, classes |-> classes])
    /\ UNCHANGED << backups, now, gui, frontEnds >>

\* GUI list_assignments(upcoming_days=7), the "Upcoming 7d" button of the
\* assignments screen: a message box, the screen stays as it is. An exception
\* leaves the callback before anything is shown.
GuiListAssignments ==
    /\ GuiIdle /\ gui.screen = "assignments" /\ gui.buttons
    /\ \E nowv \in NowValues :
          LET data == load_data(disk, now)
              r == list_assignments(data, nowv, 7)
          IN  /\ disk' = data
              /\ IF r.ok
                 THEN Done("gui", "list_assignments", "ok",
                           [now |-> nowv, days |-> 7, listed |-> r.items,
                            due |-> due_strs(r.items)])
                 ELSE Done("gui", "list_assignments", r.error,
                           [now |-> nowv, days |-> 7])
    /\ UNCHANGED << backups, now, gui, frontEnds, menu >>

\* Menu choice 6: list_assignments() with upcoming_days left at 0, every
\* assignment by dueAt text; datetime.now() is read and not used.
MenuListAssignments ==
    /\ MenuUp
    /\ LET data == load_data(disk, now)
           r == list_assignments(data, CHOOSE nowv \in NowValues : TRUE, 0)
       IN  /\ disk' = data
           /\ Done("menu", "list_assignments", "ok",
                   [days |-> 0, listed |-> r.items, due |-> menu_due_strs(r.items)])
    /\ UNCHANGED << backups, now, gui, frontEnds, menu >>

\* The documents earlier sessions left in data.json.
SeqsUpTo(S, n) == UNION {[1..k -> S] : k \in 0..n}

StoredSubject(id, schedule) ==
    new_subject(id, << "Calculus" >>, << "MA101" >>, << "Roy" >>, schedule, 0)

StoredDocument(subjects, attendance, assignments) ==
    [subjects |-> subjects, attendance |-> attendance, assignments |-> assignments,
     meta |-> [createdAt |-> 0]]

\* Two subjects and the attendance recorded for them.
AttendanceDocs ==
    {StoredDocument(<< StoredSubject(1, << >>), StoredSubject(2, << >>) >>,
                    [i \in DOMAIN m |-> new_attendance(i, m[i][1], Today, m[i][2], 0)],
                    << >>)
        : m \in SeqsUpTo({1, 2} \X BOOLEAN, MaxRows)}

\* The dueAt texts add_assignment stores (None as << >>), and one that
\* only an imported file can hold.
StoredDueTexts ==
    {<< >>, << "bad" >>, << "2024-01-03" >>, << "2024-01-10" >>,
     << "2024-01-03", "T", "00:00" >>, << "2024-01-03", " ", "10:30" >>,
     << "2024-01-03", "T", "10:30", "+00:00" >>}

\* One subject and its assignments.
DueDocs ==
    {StoredDocument(<< StoredSubject(1, << >>) >>, << >>,
                    [i \in DOMAIN m |-> new_assignment(i, 1, << "HW1" >>, << >>, m[i], 0)])
        : m \in SeqsUpTo(StoredDueTexts, MaxDue)}

\* The slots parse_schedule_string returns for the subject form: one on
\* each day of the week, and a second one on Monday.
StoredSlots ==
    {[day |-> << WEEKDAYS[k] >>, start |-> << "09:00" >>, end |-> << "12:30" >>,
      location |-> << >>] : k \in DOMAIN WEEKDAYS}
        \cup {[day |-> << "Mon" >>, start |-> << "11:00" >>, end |-> << "12:30" >>,
               location |-> << "Room201" >>]}

\* A subject and its weekly slots, alone or followed by a second subject
\* that has one slot or none.
ScheduleDocs ==
    LET Schedules == SeqsUpTo(StoredSlots, MaxSlots)
    IN  {StoredDocument(<< StoredSubject(1, s1) >>, << >>, << >>) : s1 \in Schedules}
            \cup {StoredDocument(<< StoredSubject(1, s1), StoredSubject(2, s2) >>,
                                 << >>, << >>)
                     : s1 \in Schedules, s2 \in SeqsUpTo(StoredSlots, 1)}

StoredDocuments == AttendanceDocs \cup DueDocs

\* Both front ends were started over the stored document d: the menu is at
\* its prompt; the GUI is on its dashboard, or has ended where
\* show_dashboard raised in PlannerApp.__init__.
StartedOver(d) ==
    /\ disk = d
    /\ backups = [t \in Clock |-> Absent]
    /\ now = 0
    /\ gui = IF dashboard_outcome(d) = "ok"
             THEN show_dashboard([NoGui EXCEPT !.started = TRUE])
             ELSE NoGui
    /\ frontEnds = {"gui", "menu"}
    /\ menu = [started |-> TRUE, asking |-> Closed]
    /\ writes = 0
    /\ last = [fe |-> "none", op |-> "init", out |-> "ok", arg |-> NoArg]

InitViews == \E d \in StoredDocuments : StartedOver(d)

NextViews ==
    \/ Op(GuiStart) \/ Op(MenuStart)
    \/ Op(ComputeAttendancePercent) \/ Op(GuiDashboard) \/ Op(MenuDashboard)
    \/ Op(GuiListAssignments) \/ Op(MenuListAssignments)
    \/ Op(GuiShow /\ gui'.screen = "assignments")

SpecViews == InitViews /\ [][NextViews]_vars

\* The dashboards over the documents with weekly slots.
InitClasses == \E d \in ScheduleDocs : StartedOver(d)

NextClasses == Op(GuiDashboard) \/ Op(MenuDashboard)

SpecClasses == InitClasses /\ [][NextClasses]_vars

\* ------------------------------------------------------------- cascade
\* The documents a subject is deleted from: MaxKept subjects and records
\* with the ids gen_id gave them. Either up to MaxKept assignments, each of
\* any of the subjects or of none; or up to MaxKept attendance records, each
\* of any of the subjects, beside an assignment of no subject followed by
\* one assignment for each attendance record's subject.
KeptSubjects ==
    [i \in 1..MaxKept |->
        new_subject(i, << "Calculus" >>, << "MA101" >>, << "Roy" >>, << >>, 0)]

KeptDocs ==
    LET KeptDoc(att, asg) ==
            StoredDocument(KeptSubjects,
                [i \in DOMAIN att |-> new_attendance(i, att[i], Today, TRUE, 0)],
                [i \in DOMAIN asg |->
                    new_assignment(i, asg[i], << "HW1" >>, << >>, << >>, 0)])
    IN  {KeptDoc(<< >>, asg) : asg \in SeqsUpTo({NoId} \cup 1..MaxKept, MaxKept)}
            \cup {KeptDoc(att, << NoId >> \o att)
                     : att \in SeqsUpTo(1..MaxKept, MaxKept)}

\* The GUI is run on a directory whose data.json holds such a document.
InitKept ==
    /\ disk \in KeptDocs
    /\ backups = [t \in Clock |-> Absent]
    /\ now = 0
    /\ gui = NoGui
    /\ frontEnds = {"gui"}
    /\ menu = NoMenu
    /\ writes = 0
    /\ last = [fe |-> "none", op |-> "init", out |-> "ok", arg |-> NoArg]

\* The Subjects screen and its Delete button.
NextCascade ==
    \/ Op(GuiStart) \/ Op(GuiShow /\ gui'.screen = "subjects")
    \/ Op(GuiDeleteSubjectOpen) \/ Op(GuiDeleteSubjectAnswer)
    \/ Op(GuiShowinfoOk)

SpecCascade == InitKept /\ [][NextCascade]_vars

\* ---------------------------------------------------------------- texts
\* What is typed into the schedule entry: every text of up to MaxText of
\* these symbols, and texts of up to MaxPieces of these pieces.
TextSymbols == {"Mon", "mon", "09:00", "@", "-", " ", ",", "\t", "\\xa0", "\\x0b"}

ShortTexts == SeqsUpTo(TextSymbols, MaxText)

SchedulePieces ==
    {<< >>,
     << "Mon", "@", "09:00", "-", "10:30" >>,
     << "Tue", "@", "11:00", "-", "12:30", " ", "Room201" >>,
     << " ", "Sun", "\t", "@", "\t", "09:00", "-", "10:30", " ", " ", "Room", " ", "2", " " >>,
     << "\\xa0", "Wed", "\n", "@", "\\x0b", "09:00", "\f", "-", "\r", "10:30", "\\u3000",
        " ", "\\x1c", "Lab", "\\x85", "B", "\\u2028" >>,
     << "\\xa0", "\\u2003", "\n" >>,
     << "Xyz", "@", "09:00", "-", "10:30" >>,
     << "mon", "@", "09:00", "-", "10:30", " ", "Room201" >>,
     << "Mon", "@", "09:00" >>,
     << "Mon", " ", "09:00", "-", "10:30" >>,
     << "Mon", "@", "09:00", "-", "10:30", "-", "11:00" >>,
     << "Mon", "@", "Tue", "@", "09:00", "-", "10:30" >>}

PieceTexts == {Join(ps, ",") : ps \in SeqsUpTo(SchedulePieces, MaxPieces)}

ScheduleTexts == ShortTexts \cup PieceTexts

\* The dueAt values shown in the assignments' lists.
DueTexts == {<< >>, << "bad" >>} \cup {v.text : v \in IsoValues}

\* The texts the functions below are applied to.
InputTexts == ScheduleTexts \cup DueTexts

\* Both parsers on every text.
ParsedTexts ==
    [s \in InputTexts |->
        [gui |-> parse_schedule_string(s), menu |-> menu_parse_schedule_string(s)]]

\* For each text the GUI's parser accepts: the slots, the text the edit form
\* shows for them, and what Save makes of that text (on_save, lines 323-329).
EditedSchedules ==
    [s \in {t \in InputTexts : ParsedTexts[t].gui.ok} |->
        LET entry == schedule_entry_text(ParsedTexts[s].gui.items)
        IN  [schedule |-> ParsedTexts[s].gui.items,
             entry |-> entry,
             saved |-> IF Strip(entry) = << >> THEN [ok |-> TRUE, items |-> << >>]
                       ELSE parse_schedule_string(Strip(entry))]]

\* A text is at hand: typed into an entry, or read from the document.
InitTexts ==
    /\ InitFiles
    /\ frontEnds = {"gui", "menu"}

TypeText ==
    /\ last.op = "init"
    /\ \E s \in InputTexts : Done("user", "type", "ok", [text |-> s])
    /\ UNCHANGED << disk, backups, now, gui, frontEnds, menu >>

\* parse_schedule_string(s), of either file, on the text at hand.
ParseScheduleString ==
    /\ last.op # "init"
    /\ \E fe \in frontEnds :
          LET r == ParsedTexts[last.arg.text][fe]
          IN  Done(fe, "parse_schedule_string",
                   IF r.ok THEN "ok" ELSE "ValidationError",
                   [text |-> last.arg.text, result |-> r])
    /\ UNCHANGED << disk, backups, now, gui, frontEnds, menu >>

\* The edit form of a subject whose schedule the GUI's parser returned for
\* the text: the entry is filled from the slots, Save parses the entry again.
EditFormReparse ==
    /\ last.op # "init"
    /\ "gui" \in frontEnds
    /\ last.arg.text \in DOMAIN EditedSchedules
    /\ LET x == EditedSchedules[last.arg.text]
       IN  Done("gui", "reparse", IF x.saved.ok THEN "ok" ELSE "ValidationError",
                [text |-> last.arg.text, schedule |-> x.schedule,
                 entry |-> x.entry, saved |-> x.saved])
    /\ UNCHANGED << disk, backups, now, gui, frontEnds, menu >>

\* format_datetime_iso(s), of either file, on the text at hand.
FormatDatetimeIso ==
    /\ last.op # "init"
    /\ \E fe \in frontEnds :
          Done(fe, "format_datetime_iso", "ok",
               [text |-> last.arg.text,
                shown |-> IF fe = "gui" THEN format_datetime_iso(last.arg.text)
                          ELSE menu_format_datetime_iso(last.arg.text)])
    /\ UNCHANGED << disk, backups, now, gui, frontEnds, menu >>

NextTexts ==
    \/ Op(TypeText)
    \/ Op(ParseScheduleString) \/ Op(EditFormReparse) \/ Op(FormatDatetimeIso)

SpecTexts == InitTexts /\ [][NextTexts]_vars

\* ------------------------------------------------------------ properties
\* The records of seq that pass the test, in their order.
Keep(seq, Test(_)) == SelectSeq(seq, Test)

Failed == {"ValidationError", "NotFoundError"}

\* C1: a successful deleteSubject(id) removes the subjects with that id and
\* the attendance records and assignments whose subjectId is that id; every
\* other subject, record and assignment (those of no subject included) stays,
\* unchanged and in its order, and so does the rest of the document. The
\* document before the operation is the one data.json held when the
\* operation read it.
C1_DeleteSubjectCascade ==
    [][(last'.op = "delete_subject" /\ last'.out = "ok") =>
         LET sid == last'.arg.id
             before == gui.form.data
         IN  /\ IndexOfId(before.subjects, sid) # 0
             /\ disk'.subjects = Keep(before.subjects, LAMBDA x : x.id # sid)
             /\ disk'.attendance = Keep(before.attendance, LAMBDA r : r.subjectId # sid)
             /\ disk'.assignments = Keep(before.assignments, LAMBDA a : a.subjectId # sid)
             /\ disk'.meta = before.meta]_vars

\* C1 happens: the second of three subjects was deleted with its attendance
\* record and its assignment, each of which stood between two records that
\* stay: the records of the first and the third subject, and an assignment
\* of no subject.
C1_Witness ==
    /\ last.op = "delete_subject" /\ last.out = "ok"
    /\ last.arg.id = 2 /\ last.arg.removed = 2
    /\ [i \in DOMAIN disk.subjects |-> disk.subjects[i].id] = << 1, 3 >>
    /\ [i \in DOMAIN disk.attendance |->
          << disk.attendance[i].id, disk.attendance[i].subjectId >>]
            = << << 1, 1 >>, << 3, 3 >> >>
    /\ [i \in DOMAIN disk.assignments |->
          << disk.assignments[i].id, disk.assignments[i].subjectId >>]
            = << << 1, NoId >>, << 2, 1 >>, << 4, 3 >> >>

\* No attendance record and no assignment of d refers to a subject d lacks.
NoDangling(d) ==
    /\ \A i \in DOMAIN d.attendance : d.attendance[i].subjectId \in IdsOf(d.subjects)
    /\ \A i \in DOMAIN d.assignments :
         d.assignments[i].subjectId \in IdsOf(d.subjects) \cup {NoId}

\* C2: whatever one front end has done since the empty directory (Import
\* Data apart), the persisted document holds no dangling subjectId.
C2_NoDanglingReference == disk # Absent => NoDangling(disk)

\* C2 happens: a subject was deleted together with a record that referred
\* to it, and no reference is left behind.
C2_Witness ==
    /\ last.op = "delete_subject" /\ last.out = "ok"
    /\ last.arg.removed >= 1
    /\ NoDangling(disk)

\* The ids of seq are pairwise different.
UniqueIds(seq) == \A i, j \in DOMAIN seq : seq[i].id = seq[j].id => i = j

\* C3: in the persisted document no two subjects, no two attendance records
\* and no two assignments share an id.
C3_IdsUnique ==
    disk # Absent =>
        /\ UniqueIds(disk.subjects)
        /\ UniqueIds(disk.attendance)
        /\ UniqueIds(disk.assignments)

\* C4: every schedule slot of every persisted subject has one of the seven
\* weekday labels as its day.
C4_DaysAreWeekdays ==
    disk # Absent =>
        \A i \in DOMAIN disk.subjects :
            \A k \in DOMAIN disk.subjects[i].schedule :
                day_in_WEEKDAYS(disk.subjects[i].schedule[k].day)

\* C5: an operation that ends in a validation or not-found failure leaves
\* data.json as it was (a missing file is at most initialised); and an
\* assignment is added only with a non-empty title.
C5_FailureLeavesDocument ==
    [][/\ last'.out \in Failed =>
            disk' = disk \/ (disk = Absent /\ disk' = EmptyDocument(now))
       /\ (last'.op = "add_assignment" /\ last'.out = "ok") =>
            /\ disk'.assignments # << >>
            /\ disk'.assignments[Len(disk'.assignments)].title # << >>]_vars

\* C5 happens: adding an assignment failed on a document that has content.
C5_Witness ==
    /\ last.op = "add_assignment" /\ last.out = "ValidationError"
    /\ disk # Absent
    /\ disk.subjects # << >>

\* C6: a restore leaves in data.json what the chosen backup held when the
\* restore began, and what data.json held is then in some backup.
C6_RestoreTakesBackupContent ==
    [][(last'.op = "restore" /\ last'.out = "ok") =>
         /\ disk' = backups[last'.arg.ts]
         /\ \E t \in Clock : backups'[t] = disk]_vars

\* C7: the GUI's toggle reports success only for an id the document holds.
C7_ToggleOfMissingIdFails ==
    [][(last'.fe = "gui" /\ last'.op = "toggle_assignment" /\ last'.out = "ok") =>
         IndexOfId(disk.assignments, last'.arg.id) # 0]_vars

\* C8: an update reports success only for an id the document holds.
C8_UpdateOfMissingIdFails ==
    [][(last'.op = "update_subject" /\ last'.out = "ok") =>
         IndexOfId(disk.subjects, last'.arg.id) # 0]_vars

\* C9: a load (ensure_data_file, then the read), that of a handler which
\* goes on to ask the user included, writes the empty document when
\* data.json is missing and leaves an existing data.json as it is.
C9_EnsureWritesOnlyWhenAbsent ==
    [][(last'.op \in {"start", "load"} \/ last'.out \in {"asking", "info"}) =>
         disk' = IF disk = Absent THEN EmptyDocument(now) ELSE disk]_vars

\* C9 happens: a load found a document with content and left it.
C9_Witness ==
    /\ last.op = "load"
    /\ disk # Absent
    /\ disk.assignments # << >>

\* C10: an import of a malformed file fails and leaves data.json as it was;
\* an import of a well-formed file leaves exactly the file's content there.
C10_ImportReplacesDocument ==
    [][last'.op = "import" =>
         IF last'.arg.file = MalformedFile
         THEN last'.out # "ok" /\ disk' = disk
         ELSE disk' = last'.arg.file]_vars

\* The records of subject sid in document d that count as present (p = TRUE)
\* or absent (p = FALSE).
Marked(d, sid, p) ==
    {i \in DOMAIN d.attendance :
        d.attendance[i].subjectId = sid /\ d.attendance[i].present = p}

\* C11: attendancePercent(document, subjectId) is 100 when the document has
\* no attendance record of that subject (whether the subject exists or not),
\* and otherwise 100 * N / (N + M) for the N records of the subject marked
\* present and the M marked absent; the records of other subjects do not count.
C11_AttendancePercent ==
    last.op = "attendance_percent" =>
        LET N == Cardinality(Marked(disk, last.arg.id, TRUE))
            M == Cardinality(Marked(disk, last.arg.id, FALSE))
            pct == last.arg.pct
        IN  /\ pct.den > 0
            /\ IF N + M = 0 THEN pct.num = 100 * pct.den
               ELSE pct.num * (N + M) = 100 * N * pct.den

\* The percentage of a subject present twice and absent once, asked while
\* the other subject has records too.
C11_Witness ==
    /\ last.op = "attendance_percent"
    /\ Cardinality(Marked(disk, last.arg.id, TRUE)) = 2
    /\ Cardinality(Marked(disk, last.arg.id, FALSE)) = 1
    /\ \E i \in DOMAIN disk.attendance : disk.attendance[i].subjectId # last.arg.id
    /\ last.arg.pct.num * 3 = 200 * last.arg.pct.den

\* The positions of the subjects whose attendance is below 75 percent.
LowSubjects(d) ==
    {i \in DOMAIN d.subjects :
        LET N == Cardinality(Marked(d, d.subjects[i].id, TRUE))
            M == Cardinality(Marked(d, d.subjects[i].id, FALSE))
        IN  N + M > 0 /\ 100 * N < 75 * (N + M)}

\* C12: the alerts of a dashboard are exactly the subjects whose attendance
\* percentage is strictly below 75, in the order of the subjects; a subject
\* with no record, or at exactly 75 percent, is not among them.
C12_AttendanceAlerts ==
    (last.op = "dashboard" /\ last.out = "ok") =>
        LET alerts == last.arg.alerts
            low == LowSubjects(disk)
        IN  /\ Len(alerts) = Cardinality(low)
            /\ \A i \in low :
                  alerts[Cardinality({j \in low : j <= i})].subject = disk.subjects[i]

\* A dashboard over a subject present at 3 of its 4 records, which is not
\* listed, and a subject below 75 percent, which is.
C12_Witness ==
    /\ last.op = "dashboard" /\ last.out = "ok"
    /\ \E i \in DOMAIN disk.subjects :
          /\ Cardinality(Marked(disk, disk.subjects[i].id, TRUE)) = 3
          /\ Cardinality(Marked(disk, disk.subjects[i].id, FALSE)) = 1
          /\ \A k \in DOMAIN last.arg.alerts :
                last.arg.alerts[k].subject # disk.subjects[i]
    /\ Len(last.arg.alerts) = 1

\* The positions of the assignments of d that are due within the 7 days
\* that start at nowv: dueAt is set, parses, and lies in the window.
DueInWindow(d, nowv) ==
    {i \in DOMAIN d.assignments :
        LET due == d.assignments[i].dueAt
        IN  /\ due # << >>
            /\ fromisoformat(due).ok
            /\ Instant(nowv) <= Instant(fromisoformat(due).value)
            /\ Instant(fromisoformat(due).value) <= Instant(nowv) + 7 * 86400}

DayLabel(w) ==
    CASE w = 6 -> "Sun" [] w = 0 -> "Mon" [] w = 1 -> "Tue" [] w = 2 -> "Wed"
      [] w = 3 -> "Thu" [] w = 4 -> "Fri" [] w = 5 -> "Sat"

\* The (subject, slot) positions of d whose slot is on the day labelled lbl.
SlotsOn(d, lbl) ==
    {p \in (DOMAIN d.subjects) \X (1..MaxSlots) :
        /\ p[2] \in DOMAIN d.subjects[p[1]].schedule
        /\ d.subjects[p[1]].schedule[p[2]].day = << lbl >>}

\* C14: today's classes are every (subject, slot) pair whose day is the
\* label of today's weekday, Sun for Sunday through Sat for Saturday, in
\* subject order and, within a subject, slot order; in both front ends.
C14_TodaysClasses ==
    last.op = "dashboard" =>
        LET P == SlotsOn(disk, DayLabel(weekday(last.arg.now)))
            Rank(p) == Cardinality({q \in P : q[1] < p[1] \/ (q[1] = p[1] /\ q[2] <= p[2])})
        IN  /\ Len(last.arg.classes) = Cardinality(P)
            /\ \A p \in P :
                  last.arg.classes[Rank(p)] =
                      [subject |-> disk.subjects[p[1]],
                       slot |-> disk.subjects[p[1]].schedule[p[2]]]

\* The GUI's dashboard on a Thursday: the Thursday class of each of two
\* subjects is listed, the Friday slot that comes first in the first
\* subject's schedule is not.
C14_Witness ==
    /\ last.op = "dashboard" /\ last.fe = "gui"
    /\ weekday(last.arg.now) = 3
    /\ Len(last.arg.classes) = 2
    /\ last.arg.classes[1].subject.id = 1 /\ last.arg.classes[2].subject.id = 2
    /\ \A k \in 1..2 : last.arg.classes[k].slot.day = << "Thu" >>
    /\ Len(disk.subjects[1].schedule) = 2
    /\ disk.subjects[1].schedule[1].day = << "Fri" >>

\* C15: a due date is shown as "N/A" when it is absent or empty; when it
\* parses, as the date alone exactly when its time of day is midnight and as
\* date and time otherwise, whatever the stored text looked like; when it
\* does not parse, as the stored text itself. In both front ends.
C15_FormatDueDate ==
    last.op = "format_datetime_iso" =>
        LET s == last.arg.text
            r == fromisoformat(s)
        IN  IF s = << >> THEN last.arg.shown = << "N/A" >>
            ELSE IF ~r.ok THEN last.arg.shown = s
            ELSE IF r.value.hour = 0 /\ r.value.minute = 0 /\ r.value.second = 0
                 THEN last.arg.shown = DATE_FMT(r.value)
                 ELSE last.arg.shown = DATETIME_FMT(r.value)

\* How often the symbol sym occurs in the text s.
Count(s, sym) == Cardinality({i \in DOMAIN s : s[i] = sym})

\* The k-th smallest of the numbers in S.
Nth(S, k) == CHOOSE x \in S : Cardinality({y \in S : y < x}) = k - 1

\* The part of s before, and after, its first sep.
Before(s, sep) == SubSeq(s, 1, Nth({i \in DOMAIN s : s[i] = sep}, 1) - 1)
After(s, sep) == SubSeq(s, Nth({i \in DOMAIN s : s[i] = sep}, 1) + 1, Len(s))

\* How many whitespace symbols s begins with, and ends with.
Leading(s) == Cardinality({i \in DOMAIN s : \A j \in 1..i : s[j] \in Whitespace})
Trailing(s) == Cardinality({i \in DOMAIN s : \A j \in i..Len(s) : s[j] \in Whitespace})

\* s trimmed: without the whitespace at its two ends.
Trimmed(s) ==
    IF Leading(s) = Len(s) THEN << >>
    ELSE SubSeq(s, Leading(s) + 1, Len(s) - Trailing(s))

\* The two ends of the text s and the positions of its commas.
Cuts(s) == {0, Len(s) + 1} \cup {i \in DOMAIN s : s[i] = ","}

\* The comma-separated pieces of a text, trimmed, the empty ones left out.
Pieces(s) ==
    LET between == [k \in 1..(Cardinality(Cuts(s)) - 1) |->
                       Trimmed(SubSeq(s, Nth(Cuts(s), k) + 1, Nth(Cuts(s), k + 1) - 1))]
    IN  SelectSeq(between, LAMBDA p : p # << >>)

\* The day@start-end part of a piece: what precedes its first space.
TokenOf(p) == IF Count(p, " ") > 0 THEN Before(p, " ") ELSE p

\* A piece with exactly one "@" between day and times and exactly one "-"
\* between start and end.
WellShaped(p) ==
    /\ Count(TokenOf(p), "@") = 1
    /\ Count(After(TokenOf(p), "@"), "-") = 1

DayOf(p) == Trimmed(Before(TokenOf(p), "@"))

IsLabel(day) == \E i \in DOMAIN WEEKDAYS : day = << WEEKDAYS[i] >>

\* The slot the spec gives a well-shaped piece.
SlotOf(p) ==
    [day |-> DayOf(p),
     start |-> Trimmed(Before(After(TokenOf(p), "@"), "-")),
     end |-> Trimmed(After(After(TokenOf(p), "@"), "-")),
     location |-> IF Count(p, " ") > 0 THEN Trimmed(After(p, " ")) ELSE << >>]

\* C16: the GUI's parser, given a text whose pieces are all well shaped and
\* one of whose day tokens is not one of the seven labels, fails with a
\* ValidationError that names the offending token and lists the labels.
C16_UnknownDayIsNamed ==
    ( /\ last.op = "parse_schedule_string" /\ last.fe = "gui"
      /\ \A k \in DOMAIN Pieces(last.arg.text) : WellShaped(Pieces(last.arg.text)[k])
      /\ \E k \in DOMAIN Pieces(last.arg.text) : ~IsLabel(DayOf(Pieces(last.arg.text)[k])) )
    => LET ps == Pieces(last.arg.text)
           k == CHOOSE i \in DOMAIN ps :
                    ~IsLabel(DayOf(ps[i])) /\ \A j \in 1..(i - 1) : IsLabel(DayOf(ps[j]))
       IN  /\ last.out = "ValidationError"
           /\ last.arg.result = unknown_weekday(DayOf(ps[k]))

\* C17: a text with a piece that lacks exactly one "@" or exactly one "-"
\* fails as a whole with the ValidationError that carries the example, and
\* no slots are returned, whatever the other pieces are; a text that is
\* empty once trimmed gives the empty sequence. In both front ends.
C17_AllOrNothing ==
    last.op = "parse_schedule_string" =>
        LET ps == Pieces(last.arg.text)
        IN  /\ (\E k \in DOMAIN ps : ~WellShaped(ps[k])) =>
                  last.out = "ValidationError" /\ last.arg.result = BadPiece
            /\ Trimmed(last.arg.text) = << >> =>
                  last.out = "ok" /\ last.arg.result = [ok |-> TRUE, items |-> << >>]

\* A text whose first piece is fine, whose second is whitespace alone and
\* whose third lacks the "-".
C17_Witness ==
    /\ last.op = "parse_schedule_string"
    /\ last.arg.text = << "Mon", "@", "09:00", "-", "10:30", ",",
                          "\\xa0", "\\u2003", "\n", ",", "Mon", "@", "09:00" >>
    /\ last.out = "ValidationError"
    /\ last.arg.result = BadPiece

\* C18: for a text whose pieces are all well shaped (with days among the
\* labels, where the GUI's parser is the one asked), the parser of either
\* front end returns one slot per piece, in order: day, start and end
\* trimmed, the location what follows the first space of the piece,
\* trimmed, or empty.
C18_WellFormedText ==
    ( /\ last.op = "parse_schedule_string"
      /\ \A k \in DOMAIN Pieces(last.arg.text) :
            /\ WellShaped(Pieces(last.arg.text)[k])
            /\ last.fe = "gui" => IsLabel(DayOf(Pieces(last.arg.text)[k])) )
    => /\ last.out = "ok"
       /\ last.arg.result.ok
       /\ Len(last.arg.result.items) = Len(Pieces(last.arg.text))
       /\ \A k \in DOMAIN Pieces(last.arg.text) :
             last.arg.result.items[k] = SlotOf(Pieces(last.arg.text)[k])

\* "Mon@09:00-10:30,Tue@11:00-12:30 Room201" followed by a third piece whose
\* fields are wrapped in whitespace of several kinds: the two slots of the
\* spec, then the third with its fields trimmed.
C18_Witness ==
    /\ last.op = "parse_schedule_string" /\ last.fe = "gui"
    /\ last.arg.text = << "Mon", "@", "09:00", "-", "10:30", ",",
                          "Tue", "@", "11:00", "-", "12:30", " ", "Room201", ",",
                          "\\xa0", "Wed", "\n", "@", "\\x0b", "09:00", "\f", "-", "\r",
                          "10:30", "\\u3000", " ", "\\x1c", "Lab", "\\x85", "B",
                          "\\u2028" >>
    /\ last.arg.result.ok
    /\ last.arg.result.items =
          << [day |-> << "Mon" >>, start |-> << "09:00" >>, end |-> << "10:30" >>,
              location |-> << >>],
             [day |-> << "Tue" >>, start |-> << "11:00" >>, end |-> << "12:30" >>,
              location |-> << "Room201" >>],
             [day |-> << "Wed" >>, start |-> << "09:00" >>, end |-> << "10:30" >>,
              location |-> << "Lab", "\\x85", "B" >>] >>

\* C19: the slots the GUI's parser returned, written into the edit form and
\* parsed again on Save, come back equal.
C19_RoundTrip ==
    last.op = "reparse" =>
        /\ last.out = "ok"
        /\ last.arg.saved.items = last.arg.schedule

\* Two slots parsed from pieces wrapped in whitespace of several kinds, with
\* locations that keep whitespace inside, shown and saved again.
C19_Witness ==
    /\ last.op = "reparse" /\ last.out = "ok"
    /\ Len(last.arg.schedule) = 2
    /\ last.arg.schedule[1].location = << "Room", " ", "2" >>
    /\ last.arg.schedule[2] =
          [day |-> << "Wed" >>, start |-> << "09:00" >>, end |-> << "10:30" >>,
           location |-> << "Lab", "\\x85", "B" >>]
    /\ Count(last.arg.entry, ",") = 1
    /\ last.arg.saved.items = last.arg.schedule

\* C20: every backup leaves the document as it is and produces a backup
\* equal to it without replacing or altering a backup that exists: each
\* call adds one backup, also when two calls fall into the same clock second.
C20_BackupAddsOne ==
    [][(last'.op = "backup" /\ last'.out = "ok") =>
          /\ disk' = disk
          /\ backups'[last'.arg.ts] = disk
          /\ \A t \in Clock : backups[t] # Absent => backups'[t] = backups[t]
          /\ Cardinality({t \in Clock : backups'[t] # Absent})
                = Cardinality({t \in Clock : backups[t] # Absent}) + 1]_vars

\* C21: nothing else changes the stored document between an action's load
\* and its save, so a save never overwrites what another action has saved:
\* every addition that succeeds, in either front end, leaves every subject,
\* attendance record and assignment that was stored before it in place.
C21_SaveKeepsWhatWasStored ==
    [][( /\ last'.out = "ok"
         /\ last'.op \in {"add_subject", "record_attendance", "add_assignment"}
         /\ disk # Absent )
       => \A k \in {"subjects", "attendance", "assignments"} :
             /\ Len(disk[k]) <= Len(disk'[k])
             /\ SubSeq(disk'[k], 1, Len(disk[k])) = disk[k]]_vars

\* C22: restore, import and initialize demo data, in either front end, take
\* a backup first: right after the operation the content it overwrote is
\* the content of some backup file.
C22_OverwrittenContentIsBackedUp ==
    [][( /\ last'.op \in {"restore", "import", "init_demo"}
         /\ last'.out = "ok"
         /\ disk # Absent )
       => \E t \in Clock : backups'[t] = disk]_vars

\* C23: where no document file exists yet, whatever the menu is asked to do
\* first, Backup Data and Import Data included, completes or reports an
\* error to the user; the process does not end with an unhandled failure.
C23_FirstMenuActionIsHandled ==
    [][(disk = Absent /\ last'.fe = "menu") => last'.out # "crash"]_vars

\* C24: whatever the document and the time, the "Upcoming 7d" listing
\* (list_assignments with upcoming_days = 7) does not fail where the
\* dashboard's upcoming section does not, and shows the same assignments
\* in the same order: those due within seven days, by due instant.
C24_UpcomingListingIsTheDashboards ==
    (last.op = "list_assignments" /\ last.arg.days = 7)
        => LET up == upcoming_assignments(disk, last.arg.now)
           IN  up.ok => /\ last.out = "ok"
                        /\ last.arg.listed = [i \in DOMAIN up.items |-> up.items[i].a]

=============================================================================

